---- MODULE Spec2Model ----
(***************************************************************************)
(* Model of the SymbolScanner of src/server.js and src/unnamed/part_000    *)
(* (the two files hold the same class; they differ in the finalize branch  *)
(* of processMinute and in the consumer of the bestPerformerFound event).  *)
(*                                                                         *)
(* JavaScript numbers are modelled as IEEE 754 binary64 values, whole       *)
(* numbers of any size as sequences of limbs.                              *)
(* Times are milliseconds since the epoch (Date values).                   *)
(* A JavaScript Map is a sequence of [key, value] entries in insertion      *)
(* order.  A ticker symbol is a sequence of characters, so that endsWith    *)
(* is computed rather than looked up.                                      *)
(***************************************************************************)
EXTENDS Integers, Sequences, FiniteSets, TLC

VARIABLES
    variant,             \* "server" (src/server.js) or "part" (src/unnamed/part_000)
    clock,               \* wall-clock time, ms
    idleStart,           \* the time from which the timer's delay runs: the time of
                         \* start(), then the time its last callback began
    isRunning,           \* SymbolScanner.isRunning
    intervalId,          \* SymbolScanner.intervalId: 0 is null, n > 0 the n-th timer
    priceHistory,        \* Map symbol -> array of {price, timestamp}
    volatilityScores,    \* Map symbol -> score
    volumes,             \* Map symbol -> volume
    hasErrorThisMinute,  \* SymbolScanner.hasErrorThisMinute
    pending,             \* processMinute invocations awaiting their network call
    events,              \* bestPerformerFound events emitted so far
    result,              \* the value last returned by findBestPerformer
    ops,                 \* the methods that ran in the last step, in call order
    finals,              \* history: one record per finalize step that ran: its
                         \* minute, the winner's symbol and the error flag
    failedMinutes,       \* history: the wall-clock minutes in which a fetchTickers
                         \* call failed
    preReset,            \* history: the derived state the last reset() found
    alive,               \* the node process has not exited
    rejected,            \* history: the minutes whose processMinute promise rejected
    timers,              \* the interval timers that exist (ids)
    calls,               \* number of start()/stop() calls made so far
    lastUpdate,          \* server.js: the module's lastUpdate object
    currentSymbol,       \* part_000: <<>> is null, <<d>> the symbol data d
    symbolHistory,       \* part_000: array of symbol data, newest first
    reply,               \* the HTTP request the last step answered and the answer
                         \* it got; NoReply when the step answered none
    polled,              \* the page of server.js: <<>>, or <<r>> for the answer r to
                         \* its poll that its `then` callbacks have not handled yet
    lastSeen             \* the page of server.js: its lastUpdateTime

vars == <<variant, clock, idleStart, isRunning, intervalId, priceHistory, volatilityScores,
          volumes, hasErrorThisMinute, pending, events, result, ops, finals,
          failedMinutes, preReset, alive, rejected, timers, calls,
          lastUpdate, currentSymbol, symbolHistory, reply, polled, lastSeen>>

-----------------------------------------------------------------------------
(* Natural numbers of any size: the limbs of the number in base 2^15, least *)
(* significant first, the last limb not 0; <<>> is 0                        *)

Base == 32768

Abs(n) == IF n < 0 THEN -n ELSE n

Max(a, b) == IF a >= b THEN a ELSE b

Min(a, b) == IF a <= b THEN a ELSE b

\* the number of bits of n >= 0
RECURSIVE bitLength(_)
bitLength(n) == IF n = 0 THEN 0 ELSE 1 + bitLength(n \div 2)

\* the number of 0 bits below the lowest 1 bit of n > 0
RECURSIVE trailingZeros(_)
trailingZeros(n) == IF n % 2 = 1 THEN 0 ELSE 1 + trailingZeros(n \div 2)

\* a function on 1..n as a sequence with its elements evaluated
Tuple(f) == f \o <<>>

\* n times the element x
Repeat(x, n) == Tuple([i \in 1..n |-> x])

Limb(a, i) == IF i <= Len(a) THEN a[i] ELSE 0

\* a without its leading limbs 0
BigTrim(a) ==
    IF \A i \in DOMAIN a : a[i] = 0 THEN <<>>
    ELSE SubSeq(a, 1, CHOOSE i \in DOMAIN a :
                          a[i] # 0 /\ \A j \in (i + 1)..Len(a) : a[j] = 0)

RECURSIVE BigOfInt(_)
BigOfInt(n) == IF n = 0 THEN <<>> ELSE <<n % Base>> \o BigOfInt(n \div Base)

BigIsOdd(a) == a # <<>> /\ a[1] % 2 = 1

BigBitLength(a) ==
    IF a = <<>> THEN 0 ELSE 15 * (Len(a) - 1) + bitLength(a[Len(a)])

\* the number of 0 bits below the lowest 1 bit of a > 0
BigTrailingZeros(a) ==
    LET i == CHOOSE i \in DOMAIN a : a[i] # 0 /\ \A j \in 1..(i - 1) : a[j] = 0
    IN  15 * (i - 1) + trailingZeros(a[i])

\* -1, 0 or 1 as a < b, a = b or a > b
BigCmp(a, b) ==
    IF Len(a) # Len(b) THEN (IF Len(a) < Len(b) THEN -1 ELSE 1)
    ELSE IF a = b THEN 0
    ELSE LET i == CHOOSE i \in DOMAIN a :
                      a[i] # b[i] /\ \A j \in (i + 1)..Len(a) : a[j] = b[j]
         IN  IF a[i] < b[i] THEN -1 ELSE 1

\* 2^k
BigPow2(k) == Repeat(0, k \div 15) \o <<2 ^ (k % 15)>>

\* the limbs r.limbs with the carry out of them, if there is one, on top
BigCarried(r) == IF r.carry = 0 THEN r.limbs ELSE Append(r.limbs, r.carry)

\* limbs lo..hi of a + b, and the carry out of them, for a carry into limb lo
RECURSIVE BigAddRange(_, _, _, _, _)
BigAddRange(a, b, lo, hi, carry) ==
    IF lo > hi THEN [limbs |-> <<>>, carry |-> carry]
    ELSE IF lo = hi
    THEN LET s == Limb(a, lo) + Limb(b, lo) + carry
         IN  [limbs |-> <<s % Base>>, carry |-> s \div Base]
    ELSE LET mid  == (lo + hi) \div 2
             low  == BigAddRange(a, b, lo, mid, carry)
             high == BigAddRange(a, b, mid + 1, hi, low.carry)
         IN  [limbs |-> low.limbs \o high.limbs, carry |-> high.carry]

BigAdd(a, b) == BigCarried(BigAddRange(a, b, 1, Max(Len(a), Len(b)), 0))

\* limbs lo..hi of a - b, and the borrow out of them, for a borrow from limb lo
RECURSIVE BigSubRange(_, _, _, _, _)
BigSubRange(a, b, lo, hi, borrow) ==
    IF lo > hi THEN [limbs |-> <<>>, borrow |-> borrow]
    ELSE IF lo = hi
    THEN LET d == a[lo] - Limb(b, lo) - borrow
         IN  IF d < 0 THEN [limbs |-> <<d + Base>>, borrow |-> 1]
             ELSE [limbs |-> <<d>>, borrow |-> 0]
    ELSE LET mid  == (lo + hi) \div 2
             low  == BigSubRange(a, b, lo, mid, borrow)
             high == BigSubRange(a, b, mid + 1, hi, low.borrow)
         IN  [limbs |-> low.limbs \o high.limbs, borrow |-> high.borrow]

\* a - b for a >= b
BigSub(a, b) == BigTrim(BigSubRange(a, b, 1, Len(a), 0).limbs)

\* limbs lo..hi of a * k, and the carry out of them, for a carry into limb lo
RECURSIVE BigMulLimbRange(_, _, _, _, _)
BigMulLimbRange(a, k, lo, hi, carry) ==
    IF lo > hi THEN [limbs |-> <<>>, carry |-> carry]
    ELSE IF lo = hi
    THEN LET p == a[lo] * k + carry
         IN  [limbs |-> <<p % Base>>, carry |-> p \div Base]
    ELSE LET mid  == (lo + hi) \div 2
             low  == BigMulLimbRange(a, k, lo, mid, carry)
             high == BigMulLimbRange(a, k, mid + 1, hi, low.carry)
         IN  [limbs |-> low.limbs \o high.limbs, carry |-> high.carry]

\* a * k for 0 <= k < Base
BigMulLimb(a, k) ==
    IF k = 0 THEN <<>> ELSE BigCarried(BigMulLimbRange(a, k, 1, Len(a), 0))

\* a * Base^n
BigShlLimbs(a, n) == IF a = <<>> THEN <<>> ELSE Repeat(0, n) \o a

\* a * b[lo..hi]
RECURSIVE BigMulRange(_, _, _, _)
BigMulRange(a, b, lo, hi) ==
    IF lo > hi THEN <<>>
    ELSE IF lo = hi THEN BigMulLimb(a, b[lo])
    ELSE LET mid == (lo + hi) \div 2
         IN  BigAdd(BigMulRange(a, b, lo, mid),
                    BigShlLimbs(BigMulRange(a, b, mid + 1, hi), mid + 1 - lo))

BigMul(a, b) == IF a = <<>> THEN <<>> ELSE BigMulRange(a, b, 1, Len(b))

\* a * 2^k
BigShl(a, k) ==
    IF a = <<>> THEN <<>>
    ELSE BigShlLimbs(BigMulLimb(a, 2 ^ (k % 15)), k \div 15)

\* a div 2^k
BigShr(a, k) ==
    LET q == k \div 15
        p == 2 ^ (k % 15)
    IN  IF Len(a) <= q THEN <<>>
        ELSE BigTrim(Tuple([i \in 1..(Len(a) - q) |->
                         (a[i + q] \div p) + (Limb(a, i + q + 1) % p) * (Base \div p)]))

\* a mod 2^k
BigLow(a, k) ==
    LET q == k \div 15
        p == 2 ^ (k % 15)
    IN  IF Len(a) <= q THEN a
        ELSE BigTrim(SubSeq(a, 1, q) \o <<a[q + 1] % p>>)

\* q + 1 or q, for the quotient q of a division whose remainder is below
\* (c < 0), at (c = 0) or above (c > 0) the half of the divisor: the nearest
\* whole number; a half goes as `tie` says, "up", "down" or to the "even" one
BigNearest(q, c, tie) ==
    IF c > 0 \/ (c = 0 /\ (tie = "up" \/ (tie = "even" /\ BigIsOdd(q))))
    THEN BigAdd(q, <<1>>)
    ELSE q

\* a / 2^k for k > 0, rounded to the nearest whole number
BigShrNearest(a, k, tie) ==
    BigNearest(BigShr(a, k), BigCmp(BigLow(a, k), BigPow2(k - 1)), tie)

\* the digit of the quotient rem div b (it is below Base; the top limb of b is
\* at least Base/2): the estimate from the leading limbs is at most 2 too high
RECURSIVE quotientDigit(_, _, _)
quotientDigit(rem, b, guess) ==
    IF BigCmp(BigMulLimb(b, guess), rem) > 0
    THEN quotientDigit(rem, b, guess - 1)
    ELSE guess

\* the digit d of the quotient r div b, and what is left of r
BigDivDigit(r, b, d) == [quot |-> <<d>>, rem |-> BigSub(r, BigMulLimb(b, d))]

\* r div b and r mod b for r < b * Base, b of n limbs
BigDivStep(r, b, n) ==
    BigDivDigit(r, b, quotientDigit(r, b,
                          Min(Base - 1, (Limb(r, n + 1) * Base + Limb(r, n)) \div b[n])))

\* long division of rem * Base^(hi - lo + 1) + a[lo..hi] by b, for rem < b:
\* [quot, rem], quot with a limb for each of hi down to lo, the highest first
RECURSIVE BigDivRange(_, _, _, _, _)
BigDivRange(a, b, lo, hi, rem) ==
    IF lo > hi THEN [quot |-> <<>>, rem |-> rem]
    ELSE IF lo = hi THEN BigDivStep(BigTrim(<<a[lo]>> \o rem), b, Len(b))
    ELSE LET mid  == (lo + hi) \div 2
             high == BigDivRange(a, b, mid + 1, hi, rem)
             low  == BigDivRange(a, b, lo, mid, high.rem)
         IN  [quot |-> high.quot \o low.quot, rem |-> low.rem]

\* the result d of the long division of a * 2^s by b * 2^s, as a div b and
\* a mod b
BigQuotRem(d, s) ==
    [quot |-> BigTrim(Tuple([i \in 1..Len(d.quot) |-> d.quot[Len(d.quot) + 1 - i]])),
     rem  |-> BigShr(d.rem, s)]

\* a div b and a mod b from as = a * 2^s and bs = b * 2^s, the top limb of bs
\* at least Base/2
BigDivNormalized(a, as, bs, s) ==
    IF BigCmp(as, bs) < 0 THEN [quot |-> <<>>, rem |-> a]
    ELSE BigQuotRem(BigDivRange(as, bs, 1, Len(as), <<>>), s)

BigDivShifted(a, b, s) == BigDivNormalized(a, BigShl(a, s), BigShl(b, s), s)

\* a div b and a mod b, for b > 0
BigDiv(a, b) == BigDivShifted(a, b, 15 - bitLength(b[Len(b)]))

BigSquare(a) == BigMul(a, a)

\* 10^k
RECURSIVE BigPow10(_)
BigPow10(k) ==
    IF k = 0 THEN <<1>>
    ELSE BigMulLimb(BigSquare(BigPow10(k \div 2)), IF k % 2 = 0 THEN 1 ELSE 10)

-----------------------------------------------------------------------------
(* JavaScript numbers: IEEE 754 binary64.  A finite number is                *)
(* sign * mant * 2^exp with mant odd (0 is mant <<>>, exp 0, and keeps its   *)
(* sign), so that equal numbers are equal records.                           *)

NaN == [cls |-> "nan", sign |-> 1, mant |-> <<>>, exp |-> 0]

Infinity(sign) == [cls |-> "inf", sign |-> sign, mant |-> <<>>, exp |-> 0]

\* sign * 0
Zero(sign) == [cls |-> "fin", sign |-> sign, mant |-> <<>>, exp |-> 0]

\* sign * m * 2^e for m > 0 with z zero bits at its end
FiniteOdd(sign, m, e, z) ==
    [cls |-> "fin", sign |-> sign, mant |-> BigShr(m, z), exp |-> e + z]

\* sign * m * 2^e, which is known to be a binary64 value
Finite(sign, m, e) ==
    IF m = <<>> THEN Zero(sign) ELSE FiniteOdd(sign, m, e, BigTrailingZeros(m))

\* sign * r * 2^e for r of 53 bits or fewer and e >= -1074: 2^1024 and above
\* is Infinity
Overflowing(sign, r, e) ==
    IF BigBitLength(r) + e > 1024 THEN Infinity(sign) ELSE Finite(sign, r, e)

\* sign * (m + f) * 2^e with the last k bits of m rounded away
RoundBits(sign, m, e, inexact, k) ==
    Overflowing(sign,
                IF k <= 0 THEN m
                ELSE BigShrNearest(m, k, IF inexact THEN "up" ELSE "even"),
                Max(k, 0) + e)

\* the binary64 value nearest to sign * (m + f) * 2^e, where 0 < f < 1 when
\* inexact and f = 0 otherwise: 53 bits are kept, fewer below 2^-1022, ties go
\* to the even neighbour, and 2^1024 and above is Infinity.  An inexact m has
\* more than 53 bits.
RoundToDouble(sign, m, e, inexact) ==
    RoundBits(sign, m, e, inexact, Max(e + BigBitLength(m) - 53, -1074) - e)

\* the number of a TLA+ integer
Num(n) == Finite(IF n < 0 THEN -1 ELSE 1, BigOfInt(Abs(n)), 0)

isNaN(x) == x.cls = "nan"

isFinite(x) == x.cls = "fin"

isZero(x) == x.cls = "fin" /\ x.mant = <<>>

\* -x
Neg(x) == IF isNaN(x) THEN x ELSE [x EXCEPT !.sign = -x.sign]

\* the sum of two finite numbers that are not 0, the second one below 2^-64
\* times the last bit of the first, where it only decides the rounding: the
\* sum is sign * (mant + f) * 2^exp, 0 < f < 1
SumFar(big, small) ==
    [sign    |-> big.sign,
     mant    |-> IF big.sign = small.sign THEN BigShl(big.mant, 60)
                 ELSE BigSub(BigShl(big.mant, 60), <<1>>),
     exp     |-> big.exp - 60,
     inexact |-> TRUE]

\* xs * a * 2^e + ys * b * 2^e, c the order of a and b; +0 when it is 0
SumOrdered(xs, ys, a, b, e, c) ==
    [sign    |-> IF xs = ys \/ c > 0 THEN xs ELSE IF c < 0 THEN ys ELSE 1,
     mant    |-> IF xs = ys THEN BigAdd(a, b)
                 ELSE IF c >= 0 THEN BigSub(a, b)
                 ELSE BigSub(b, a),
     exp     |-> e,
     inexact |-> FALSE]

SumAligned(xs, ys, a, b, e) == SumOrdered(xs, ys, a, b, e, BigCmp(a, b))

SumAt(x, y, e) ==
    SumAligned(x.sign, y.sign, BigShl(x.mant, x.exp - e), BigShl(y.mant, y.exp - e), e)

\* the sum of two finite numbers that are not 0, exactly
SumNear(x, y) == SumAt(x, y, Min(x.exp, y.exp))

\* the sum of two finite numbers that are not 0, before it is rounded
Sum(x, y) ==
    IF x.exp > BigBitLength(y.mant) + y.exp + 64 THEN SumFar(x, y)
    ELSE IF y.exp > BigBitLength(x.mant) + x.exp + 64 THEN SumFar(y, x)
    ELSE SumNear(x, y)

RoundSum(s) == RoundToDouble(s.sign, s.mant, s.exp, s.inexact)

\* x + y
Add(x, y) ==
    IF isNaN(x) \/ isNaN(y) THEN NaN
    ELSE IF ~isFinite(x) THEN (IF ~isFinite(y) /\ x.sign # y.sign THEN NaN ELSE x)
    ELSE IF ~isFinite(y) THEN y
    ELSE IF isZero(x) /\ isZero(y)
         THEN (IF x.sign = -1 /\ y.sign = -1 THEN x ELSE Zero(1))
    ELSE IF isZero(x) THEN y
    ELSE IF isZero(y) THEN x
    ELSE RoundSum(Sum(x, y))

\* x - y
Sub(x, y) == Add(x, Neg(y))

\* x * y
Mul(x, y) ==
    IF isNaN(x) \/ isNaN(y) THEN NaN
    ELSE IF ~isFinite(x) \/ ~isFinite(y)
         THEN (IF isZero(x) \/ isZero(y) THEN NaN ELSE Infinity(x.sign * y.sign))
    ELSE RoundToDouble(x.sign * y.sign, BigMul(x.mant, y.mant), x.exp + y.exp, FALSE)

\* sign * (d.quot + f) * 2^e rounded, f > 0 when the division d left a
\* remainder
RoundQuotient(sign, d, e) == RoundToDouble(sign, d.quot, e, d.rem # <<>>)

RoundRatioBy(sign, a, b, e, s) == RoundQuotient(sign, BigDiv(BigShl(a, s), b), e - s)

\* the binary64 value nearest to sign * (a / b) * 2^e, for a > 0 and b > 0:
\* the quotient is taken to 56 bits or more
RoundRatio(sign, a, b, e) ==
    RoundRatioBy(sign, a, b, e, Max(0, 56 + BigBitLength(b) - BigBitLength(a)))

\* x / y
Div(x, y) ==
    IF isNaN(x) \/ isNaN(y) THEN NaN
    ELSE IF ~isFinite(x)
         THEN (IF ~isFinite(y) THEN NaN ELSE Infinity(x.sign * y.sign))
    ELSE IF ~isFinite(y) THEN Zero(x.sign * y.sign)
    ELSE IF isZero(y)
         THEN (IF isZero(x) THEN NaN ELSE Infinity(x.sign * y.sign))
    ELSE IF isZero(x) THEN Zero(x.sign * y.sign)
    ELSE RoundRatio(x.sign * y.sign, x.mant, y.mant, x.exp - y.exp)

\* Math.abs
MathAbs(x) == [x EXCEPT !.sign = 1]

\* the order of the magnitudes of two finite numbers that are not 0
OrderOfMagnitudes(x, y) ==
    LET tx == BigBitLength(x.mant) + x.exp
        ty == BigBitLength(y.mant) + y.exp
        e  == Min(x.exp, y.exp)
    IN  IF tx # ty THEN (IF tx < ty THEN -1 ELSE 1)
        ELSE BigCmp(BigShl(x.mant, x.exp - e), BigShl(y.mant, y.exp - e))

\* -1, 0 or 1 for a number that is not NaN; -0 and +0 are both 0
Signum(x) == IF isZero(x) THEN 0 ELSE x.sign

\* the order of two numbers that are not NaN: -1, 0 or 1
Order(x, y) ==
    IF Signum(x) # Signum(y) THEN (IF Signum(x) < Signum(y) THEN -1 ELSE 1)
    ELSE IF Signum(x) = 0 THEN 0
    ELSE IF ~isFinite(x) THEN (IF ~isFinite(y) THEN 0 ELSE x.sign)
    ELSE IF ~isFinite(y) THEN -y.sign
    ELSE x.sign * OrderOfMagnitudes(x, y)

\* x > y, x >= y, x < y: false when an operand is NaN
Gt(x, y) == ~isNaN(x) /\ ~isNaN(y) /\ Order(x, y) > 0

Ge(x, y) == ~isNaN(x) /\ ~isNaN(y) /\ Order(x, y) >= 0

Lt(x, y) == ~isNaN(x) /\ ~isNaN(y) /\ Order(x, y) < 0

\* Math.round: the nearest integer, halves rounded towards +Infinity; a
\* negative number that rounds to 0 gives -0
MathRound(x) ==
    IF ~isFinite(x) \/ x.exp >= 0 THEN x
    ELSE Finite(x.sign,
                BigShrNearest(x.mant, -x.exp, IF x.sign = 1 THEN "up" ELSE "down"),
                0)

\* Number.isInteger
isInteger(x) == isFinite(x) /\ x.exp >= 0

-----------------------------------------------------------------------------
(* Strings are sequences of characters; numbers to and from strings        *)

Digits == <<"0", "1", "2", "3", "4", "5", "6", "7", "8", "9">>

isDigit(c) == \E d \in 1..10 : Digits[d] = c

digitValue(c) == (CHOOSE d \in 1..10 : Digits[d] = c) - 1

RECURSIVE BigDigitsOfLength(_, _)

\* the n digits of d.quot * 10^(n div 2) + d.rem
BigDigitsOfHalves(d, n) ==
    (IF d.quot = <<>> THEN Repeat("0", n - (n \div 2))
     ELSE BigDigitsOfLength(d.quot, n - (n \div 2)))
        \o BigDigitsOfLength(d.rem, n \div 2)

\* the n decimal digits of a whole number a < 10^n, the first one first
BigDigitsOfLength(a, n) ==
    IF a = <<>> THEN Repeat("0", n)
    ELSE IF n = 1 THEN <<Digits[a[1] + 1]>>
    ELSE BigDigitsOfHalves(BigDiv(a, BigPow10(n \div 2)), n)

\* the digits s without the 0 they may start with
withoutLeadingZero(s) == IF s[1] = "0" THEN Tail(s) ELSE s

\* the decimal digits of a whole number, the first one first; 0 has none
BigDigits(a) ==
    IF a = <<>> THEN <<>>
    ELSE withoutLeadingZero(
             BigDigitsOfLength(a, (BigBitLength(a) * 30103) \div 100000 + 1))

\* the whole number whose decimal digits are s[i..j]
RECURSIVE BigOfDigits(_, _, _)
BigOfDigits(s, i, j) ==
    IF i > j THEN <<>>
    ELSE IF i = j THEN BigOfInt(digitValue(s[i]))
    ELSE LET mid == (i + j) \div 2
         IN  BigAdd(BigMul(BigOfDigits(s, i, mid), BigPow10(j - mid)),
                    BigOfDigits(s, mid + 1, j))

\* the binary64 value nearest to sign * m * 10^k
Decimal(sign, m, k) ==
    IF m = <<>> THEN Zero(sign)
    ELSE IF k >= 0 THEN RoundToDouble(sign, BigMul(m, BigPow10(k)), 0, FALSE)
    ELSE RoundRatio(sign, m, BigPow10(-k), 0)

\* the first position of s at or after i that holds none of the characters cs
skip(s, i, cs) ==
    CHOOSE j \in i..(Len(s) + 1) :
        /\ j = Len(s) + 1 \/ s[j] \notin cs
        /\ \A h \in i..(j - 1) : s[h] \in cs

\* A character is a string of one character; a character that a string of
\* this module cannot hold is written as its code point, "U+3000".
\* The white space that parseFloat and parseInt skip (StrWhiteSpaceChar): TAB,
\* LF, VT, FF, CR, SP, NBSP, the other space separators, the line and the
\* paragraph separator, and the byte order mark.
WhiteSpace ==
    {"\t", "\n", "", "\f", "\r", " ", " ",
     "U+0009", "U+000A", "U+000B", "U+000C", "U+000D", "U+0020", "U+00A0",
     "U+1680", "U+2000", "U+2001", "U+2002", "U+2003", "U+2004", "U+2005",
     "U+2006", "U+2007", "U+2008", "U+2009", "U+200A", "U+2028", "U+2029",
     "U+202F", "U+205F", "U+3000", "U+FEFF"}

skipSpace(s, i) == skip(s, i, WhiteSpace)

skipDigits(s, i) == skip(s, i, {Digits[d] : d \in 1..10})

skipZeros(s, i) == skip(s, i, {"0"})

\* whether s holds the string t from position i on
startsWithAt(s, t, i) == Len(s) >= i + Len(t) - 1 /\ SubSeq(s, i, i + Len(t) - 1) = t

\* whether s holds one of the characters cs at position i
hasAt(s, i, cs) == i <= Len(s) /\ s[i] \in cs

\* the sign that s holds at position i ("+" or none is 1)
signAt(s, i) == IF hasAt(s, i, {"-"}) THEN -1 ELSE 1

\* the position after the sign that s may hold at position i
afterSign(s, i) == IF hasAt(s, i, {"-", "+"}) THEN i + 1 ELSE i

\* the value of the digits s[i..j-1] as a TLA+ integer, no more than limit
RECURSIVE cappedValue(_, _, _, _, _)
cappedValue(s, i, j, acc, limit) ==
    IF i >= j THEN acc
    ELSE cappedValue(s, i + 1, j, Min(limit, acc * 10 + digitValue(s[i])), limit)

\* the value of the exponent part that str holds at position i; 0 when it
\* holds none, or one without a digit
exponentAt(str, i) ==
    IF ~hasAt(str, i, {"e", "E"}) THEN 0
    ELSE signAt(str, i + 1)
             * cappedValue(str, afterSign(str, i + 1),
                           skipDigits(str, afterSign(str, i + 1)), 0, 100000)

\* sign * digits * 10^scale for digits that hold their first digit other
\* than 0 at position first
parseFloatOfSignificant(sign, digits, first, scale) ==
    IF first > Len(digits) THEN Zero(sign)
    ELSE IF Len(digits) - first + 1 + scale > 310 THEN Infinity(sign)
    ELSE IF Len(digits) - first + 1 + scale < -330 THEN Zero(sign)
    ELSE Decimal(sign, BigOfDigits(digits, first, Len(digits)), scale)

parseFloatOfDigits(sign, digits, scale) ==
    parseFloatOfSignificant(sign, digits, skipZeros(digits, 1), scale)

\* the literal of str: the integer digits are str[j..intEnd-1]; the fraction
\* digits, when there is a point, are str[intEnd+1..fracEnd-1], and fracEnd is
\* intEnd when there is none
parseFloatOfParts(str, sign, j, intEnd, fracEnd) ==
    IF intEnd = j /\ fracEnd <= intEnd + 1 THEN NaN
    ELSE parseFloatOfDigits(sign,
             SubSeq(str, j, intEnd - 1)
                 \o (IF fracEnd > intEnd THEN SubSeq(str, intEnd + 1, fracEnd - 1)
                     ELSE <<>>),
             exponentAt(str, fracEnd) - Max(0, fracEnd - intEnd - 1))

parseFloatOfInteger(str, sign, j, intEnd) ==
    parseFloatOfParts(str, sign, j, intEnd,
                      IF hasAt(str, intEnd, {"."}) THEN skipDigits(str, intEnd + 1)
                      ELSE intEnd)

parseFloatOfUnsigned(str, sign, j) ==
    IF startsWithAt(str, <<"I", "n", "f", "i", "n", "i", "t", "y">>, j)
    THEN Infinity(sign)
    ELSE parseFloatOfInteger(str, sign, j, skipDigits(str, j))

parseFloatOfTrimmed(str, i) == parseFloatOfUnsigned(str, signAt(str, i), afterSign(str, i))

\* parseFloat of a string: white space is skipped, the longest prefix that is
\* a decimal literal (sign, digits, fraction, exponent, or Infinity) is read
\* and rounded to the nearest number; NaN when there is none
parseFloatOfString(str) == parseFloatOfTrimmed(str, skipSpace(str, 1))

\* String(n) of an integer n >= 0
RECURSIVE toString(_)
toString(n) ==
    IF n < 10 THEN <<Digits[n + 1]>>
    ELSE Append(toString(n \div 10), Digits[(n % 10) + 1])

\* the numbers that round to a finite x >= 2^54: those no more than `below`
\* under x and no more than `above` over it, the two ends included when the
\* 53-bit mantissa of x is even
roundingInterval(x) ==
    LET len == BigBitLength(x.mant)
        ulp == x.exp - (53 - len)
    IN  [above  |-> BigPow2(ulp - 1),
         below  |-> IF len = 1 THEN BigPow2(ulp - 2) ELSE BigPow2(ulp - 1),
         closed |-> len < 53]

within(gap, limit, closed) ==
    BigCmp(gap, limit) < 0 \/ (closed /\ BigCmp(gap, limit) = 0)

\* the multiple of p nearest to d.quot * p + d.rem among the two neighbours,
\* if it is in the interval: [found, s], the multiple being s * p.  okDown and
\* okUp say which neighbours are in the interval, c is the order of their
\* distances.
candidateAmong(d, okDown, okUp, c) ==
    IF okDown /\ (~okUp \/ c < 0 \/ (c = 0 /\ ~BigIsOdd(d.quot)))
    THEN [found |-> TRUE, s |-> d.quot]
    ELSE IF okUp THEN [found |-> TRUE, s |-> BigAdd(d.quot, <<1>>)]
    ELSE [found |-> FALSE, s |-> <<>>]

candidateBetween(d, up, iv) ==
    candidateAmong(d, within(d.rem, iv.below, iv.closed),
                   within(up, iv.above, iv.closed), BigCmp(d.rem, up))

candidateOf(d, p, iv) == candidateBetween(d, BigSub(p, d.rem), iv)

\* the candidate for v that is a multiple of p
candidate(v, p, iv) == candidateOf(BigDiv(v, p), p, iv)

RECURSIVE shortest(_, _, _, _)

shortestFrom(t, v, n, k, iv) ==
    IF t.found \/ k >= 17 THEN [count |-> k, s |-> t.s]
    ELSE shortest(v, n, k + 1, iv)

\* the fewest digits, k or more, that read back as the number v of n digits
\* whose interval is iv: [count, s]
shortest(v, n, k, iv) == shortestFrom(candidate(v, BigPow10(n - k), iv), v, n, k, iv)

\* d.ddde+x
exponential(sign, text, e) ==
    (IF sign = -1 THEN <<"-">> ELSE <<>>)
        \o <<text[1]>>
        \o (IF Len(text) > 1 THEN <<".">> \o SubSeq(text, 2, Len(text)) ELSE <<>>)
        \o <<"e", "+">> \o toString(e)

\* the text of `count` digits s for a number of n digits; when rounding up
\* carried into one more digit, s is 10^count
exponentialOfDigits(sign, s, count, n) ==
    exponential(sign, IF Len(s) > count THEN <<"1">> ELSE s,
                IF Len(s) > count THEN n ELSE n - 1)

exponentialOfShortest(sign, r, n) == exponentialOfDigits(sign, BigDigits(r.s), r.count, n)

exponentialOfLength(sign, v, n, iv) ==
    exponentialOfShortest(sign, shortest(v, n, 1, iv), n)

exponentialOfWhole(sign, v, iv) == exponentialOfLength(sign, v, Len(BigDigits(v)), iv)

\* Number::toString of a finite number of 10^21 or more: the fewest digits
\* that read back as x, then the exponent
NumberToStringLarge(x) ==
    exponentialOfWhole(x.sign, BigShl(x.mant, x.exp), roundingInterval(x))

\* the digits with `places` of them after the point, zeros put in front as
\* needed; the point is left out when nothing follows it
fixedOfPadded(negative, padded, places) ==
    (IF negative THEN <<"-">> ELSE <<>>)
        \o SubSeq(padded, 1, Len(padded) - places)
        \o (IF places > 0
            THEN <<".">> \o SubSeq(padded, Len(padded) - places + 1, Len(padded))
            ELSE <<>>)

fixedOfDigits(negative, digits, places) ==
    fixedOfPadded(negative, Repeat("0", Max(0, places + 1 - Len(digits))) \o digits, places)

\* scaled * 2^e rounded to the nearest whole number, halves away from 0
fixedOfScaled(scaled, e) ==
    IF e >= 0 THEN BigShl(scaled, e) ELSE BigShrNearest(scaled, -e, "up")

\* Number.prototype.toFixed(places): the decimal string of the number
\* rounded to `places` decimals, halves away from 0
toFixed(x, places) ==
    IF isNaN(x) THEN <<"N", "a", "N">>
    ELSE IF ~isFinite(x)
    THEN (IF x.sign = -1 THEN <<"-">> ELSE <<>>)
             \o <<"I", "n", "f", "i", "n", "i", "t", "y">>
    ELSE IF Ge(MathAbs(x), Finite(1, BigPow10(21), 0)) THEN NumberToStringLarge(x)
    ELSE fixedOfDigits(x.sign = -1 /\ ~isZero(x),
                       BigDigits(fixedOfScaled(BigMul(x.mant, BigPow10(places)), x.exp)),
                       places)

-----------------------------------------------------------------------------
(* JavaScript Map: entries in insertion order *)

Range(s) == {s[i] : i \in DOMAIN s}

Keys(map) == {map[i].key : i \in DOMAIN map}

Has(map, k) == k \in Keys(map)

IndexOf(map, k) == CHOOSE i \in DOMAIN map : map[i].key = k

\* Map.prototype.get of a key the map holds
Get(map, k) == map[IndexOf(map, k)].value

\* Map.prototype.set: a held key keeps its place, a new key goes last
Set(map, k, v) ==
    IF Has(map, k)
    THEN [map EXCEPT ![IndexOf(map, k)] = [key |-> k, value |-> v]]
    ELSE Append(map, [key |-> k, value |-> v])

\* Map.prototype.get used as a number: a missing key gives undefined, which
\* compares and subtracts as NaN
GetNumber(map, k) == IF Has(map, k) THEN Get(map, k) ELSE NaN

-----------------------------------------------------------------------------
(* Symbols *)

USDT == <<"U", "S", "D", "T">>

\* String.prototype.endsWith
endsWith(s, suffix) ==
    /\ Len(s) >= Len(suffix)
    /\ SubSeq(s, Len(s) - Len(suffix) + 1, Len(s)) = suffix

\* null (and the empty string, which is as falsy as null for `result.symbol`)
Null == <<>>

AUSDT == <<"A">> \o USDT
BUSDT == <<"B">> \o USDT
CUSDT == <<"C">> \o USDT
AUSD  == <<"A", "U", "S", "D">>

-----------------------------------------------------------------------------
(* The market data source: what one GET /v5/market/tickers can come back as *)

\* the decimal string of n / 10^places, for an integer n
decimalString(n, places) == fixedOfDigits(n < 0, toString(Abs(n)), places)

\* a well-formed ticker: the fields are decimal strings; the funding rate is
\* given in millionths
Ticker(sym, price, turnover, funding) ==
    [symbol      |-> sym,
     lastPrice   |-> toString(price),
     turnover24h |-> toString(turnover),
     fundingRate |-> decimalString(funding, 6)]

\* an entry of the list that lacks its symbol
NoSymbolTicker == [lastPrice |-> toString(1000), turnover24h |-> toString(20000000)]

Json(list) == [status |-> "json", data |-> [result |-> [list |-> list]]]

\* AUSDT is liquid; BUSDT is below the volume floor; AUSD is not a USDT pair
Snapshot1 ==
    Json(<<Ticker(AUSDT, 1000, 20000000, 100), Ticker(BUSDT, 1000, 5000000, -50),
           Ticker(AUSD, 7, 90000000, 0)>>)

\* the ticker with white space before its numbers: a form feed, an ideographic
\* space
Padded(ticker) ==
    [ticker EXCEPT !.lastPrice = <<"\f">> \o @, !.turnover24h = <<"U+3000">> \o @]

\* BUSDT has moved more than AUSDT, and AUSDT's turnover is just below the floor
Snapshot2 ==
    Json(<<Padded(Ticker(AUSDT, 1001, 9999999, 100)),
           Ticker(BUSDT, 1003, 5000000, -50)>>)

\* a list with a malformed entry after a good one, and without AUSDT
Snapshot3 ==
    Json(<<Ticker(BUSDT, 1003, 20000000, 125), NoSymbolTicker>>)

Responses ==
    { [status |-> "rejected"],                        \* fetch() rejects
      [status |-> "unparsable"],                      \* response.json() rejects
      [status |-> "json", data |-> [retCode |-> 10001]],  \* a body without result.list
      Snapshot1, Snapshot2, Snapshot3 }

-----------------------------------------------------------------------------
(* SymbolScanner.fetchTickers *)

hasList(data) == "result" \in DOMAIN data /\ "list" \in DOMAIN data.result

\* the tickers the responses list
QuotedTickers ==
    UNION {Range(r.data.result.list) :
              r \in {x \in Responses : x.status = "json" /\ hasList(x.data)}}

\* the strings they give for a price, a turnover or a funding rate
QuotedStrings ==
    UNION {{t[f] : f \in DOMAIN t \ {"symbol"}} : t \in QuotedTickers}

\* parseFloat of each of these strings, computed once
parsedQuotes == [str \in QuotedStrings |-> parseFloatOfString(str)] @@ <<>>

\* parseFloat(ticker.field): NaN for a missing field (undefined)
parseFloat(ticker, field) ==
    IF field \notin DOMAIN ticker THEN NaN
    ELSE IF ticker[field] \in DOMAIN parsedQuotes THEN parsedQuotes[ticker[field]]
    ELSE parseFloatOfString(ticker[field])

\* the forEach callback on one ticker.  st is [priceHistory, volumes, threw];
\* ticker.symbol.endsWith throws a TypeError when the entry has no symbol.
ingestTicker(st, ticker, currentTime) ==
    IF "symbol" \notin DOMAIN ticker THEN [st EXCEPT !.threw = TRUE]
    ELSE IF ~endsWith(ticker.symbol, USDT) THEN st
    ELSE LET price   == parseFloat(ticker, "lastPrice")
             volume  == parseFloat(ticker, "turnover24h")
             created == IF Has(st.priceHistory, ticker.symbol)
                        THEN st.priceHistory
                        ELSE Set(st.priceHistory, ticker.symbol, <<>>)
             pushed  == Set(created, ticker.symbol,
                            Append(Get(created, ticker.symbol),
                                   [price |-> price, timestamp |-> currentTime]))
         IN  [priceHistory |-> pushed,
              volumes      |-> Set(st.volumes, ticker.symbol, volume),
              threw        |-> FALSE]

\* data.result.list.forEach(...) from entry i on: it stops at the entry that throws
RECURSIVE forEachTicker(_, _, _, _)
forEachTicker(st, list, i, currentTime) ==
    IF i > Len(list) \/ st.threw THEN st
    ELSE forEachTicker(ingestTicker(st, list[i], currentTime), list, i + 1, currentTime)

\* the scanner's fields when the forEach has ended in the state st: the catch
\* block sets the flag, nothing clears it
fetched(st, hasError) ==
    [priceHistory       |-> st.priceHistory,
     volumes            |-> st.volumes,
     hasErrorThisMinute |-> hasError \/ st.threw]

\* the scanner's fields after fetchTickers() got `response` at time now
fetchTickers(response, history, vols, hasError, now) ==
    IF response.status # "json" \/ ~hasList(response.data)
    THEN [priceHistory |-> history, volumes |-> vols, hasErrorThisMinute |-> TRUE]
    ELSE fetched(forEachTicker([priceHistory |-> history, volumes |-> vols,
                                threw |-> FALSE],
                               response.data.result.list, 1, now),
                 hasError)

\* whether the call ended in its catch block
fetchFailed(response) ==
    \/ response.status # "json"
    \/ ~hasList(response.data)
    \/ \E i \in DOMAIN response.data.result.list :
          "symbol" \notin DOMAIN response.data.result.list[i]

-----------------------------------------------------------------------------
(* SymbolScanner.calculateVolatility *)

WindowMs == 60000

\* mutant: the window filter is dropped, every sample is scored
allPrices(prices, oneMinuteAgo) == prices

\* prices.filter(p => p.timestamp >= oneMinuteAgo)
relevantPrices(prices, oneMinuteAgo) ==
    SelectSeq(prices, LAMBDA p : p.timestamp >= oneMinuteAgo)

\* the loop of lines 78-84: the sum of |p[i] - p[i-1]| for i = 2..upto
RECURSIVE totalMovement(_, _)
totalMovement(rel, upto) ==
    IF upto < 2 THEN Num(0)
    ELSE Add(totalMovement(rel, upto - 1),
             MathAbs(Sub(rel[upto].price, rel[upto - 1].price)))

\* relevantPrices.reduce((sum, p) => sum + p.price, 0) over the first upto
RECURSIVE sumPrices(_, _)
sumPrices(rel, upto) ==
    IF upto = 0 THEN Num(0)
    ELSE Add(sumPrices(rel, upto - 1), rel[upto].price)

averagePrice(rel) == Div(sumPrices(rel, Len(rel)), Num(Len(rel)))

\* `(totalMovement / averagePrice) * 100`
scoreOf(rel) ==
    Mul(Div(totalMovement(rel, Len(rel)), averagePrice(rel)), Num(100))

\* the prices the responses quote for USDT pairs
QuotedPrices ==
    {parseFloat(t, "lastPrice") :
        t \in {x \in QuotedTickers : "symbol" \in DOMAIN x /\ endsWith(x.symbol, USDT)}}

\* the timer is followed for MaxTicks seconds, so that a symbol gets up to
\* MaxTicks samples
MaxTicks == 4

\* the score of each list of two to MaxTicks quoted prices, computed once
quotedScores ==
    [ps \in UNION {[1..n -> QuotedPrices] : n \in 2..MaxTicks} |->
        scoreOf([i \in DOMAIN ps |-> [price |-> ps[i]]])] @@ <<>>

\* the score of the samples rel
volatilityScore(rel) ==
    LET ps == [i \in DOMAIN rel |-> rel[i].price]
    IN  IF ps \in DOMAIN quotedScores THEN quotedScores[ps] ELSE scoreOf(rel)

\* the for-of loop over priceHistory.entries(), from entry i on, into scores
RECURSIVE scoreEntries(_, _, _, _)
scoreEntries(history, i, oneMinuteAgo, scores) ==
    IF i > Len(history) THEN scores
    ELSE LET rel == relevantPrices(history[i].value, oneMinuteAgo)
         IN  IF Len(rel) < 2
             THEN scoreEntries(history, i + 1, oneMinuteAgo, scores)
             ELSE scoreEntries(history, i + 1, oneMinuteAgo,
                               Set(scores, history[i].key, volatilityScore(rel)))

\* mutant: the score map is not cleared before it is recomputed
calculateVolatilityKeepingOld(history, now) ==
    scoreEntries(history, 1, now - WindowMs, volatilityScores)

\* the score map after calculateVolatility() at time now: it is cleared first
calculateVolatility(history, now) ==
    scoreEntries(history, 1, now - WindowMs, <<>>)

-----------------------------------------------------------------------------
(* SymbolScanner.findBestPerformer *)

minVolume == 10000000

\* 0.0001, the score difference above which the score decides the order
Epsilon == Div(Num(1), Num(10000))

\* mutant: the scores alone decide the order, however close they are
compareScoresOnly(vols, a, b) == Sub(b.value, a.value)

\* the comparator from `if (Math.abs(scoreDiff) > 0.0001)` on
compareBy(vols, a, b, scoreDiff) ==
    IF Gt(MathAbs(scoreDiff), Epsilon)
    THEN scoreDiff
    ELSE Sub(GetNumber(vols, b.key), GetNumber(vols, a.key))

\* the sort comparator, called on the entries a and b of the score map
compare(vols, a, b) == compareBy(vols, a, b, Sub(b.value, a.value))

\* whether V8 finds `order < 0` for the comparator's result on (a, b); a NaN
\* result counts as 0
orderIsNegative(vols, a, b) == Lt(compare(vols, a, b), Num(0))

\* V8's Array.prototype.sort (TimSort, third_party/v8/builtins/array-sort.tq).
\* Positions count from 0 as in V8; workArray[i] is At(work, i).  The
\* comparator is handed down as `less`: less[a, b] is `order < 0` for the
\* call of the comparator on (a, b).
At(array, i) == array[i + 1]

Put(array, i, v) == [array EXCEPT ![i + 1] = v]

\* Copy(source, srcPos, target, dstPos, length): target afterwards
Copy(source, srcPos, target, dstPos, length) ==
    SubSeq(target, 1, dstPos)
        \o SubSeq(source, srcPos + 1, srcPos + length)
        \o SubSeq(target, dstPos + length + 1, Len(target))

\* ReverseRange(array, from, to)
reverseRange(array, from, to) ==
    SubSeq(array, 1, from)
        \o Tuple([i \in 1..(to - from) |-> array[to + 1 - i]])
        \o SubSeq(array, to + 1, Len(array))

\* ComputeMinRunLength
RECURSIVE computeMinRunLength(_, _)
computeMinRunLength(n, r) ==
    IF n >= 64 THEN computeMinRunLength(n \div 2, IF n % 2 = 1 THEN 1 ELSE r)
    ELSE n + r

\* the first idx in from..(to - 1) at which the loop of CountAndMakeRun
\* breaks, and `to` when there is none
RECURSIVE runEnd(_, _, _, _, _)
runEnd(less, work, isDescending, from, to) ==
    IF from >= to THEN to
    ELSE IF from + 1 = to
    THEN (IF less[At(work, from), At(work, from - 1)] # isDescending THEN from ELSE to)
    ELSE LET mid  == from + ((to - from) \div 2)
             left == runEnd(less, work, isDescending, from, mid)
         IN  IF left < mid THEN left
             ELSE runEnd(less, work, isDescending, mid, to)

\* the run of `run` elements from lowArg on, reversed if it is descending
madeRun(work, lowArg, isDescending, run) ==
    [work |-> IF isDescending THEN reverseRange(work, lowArg, lowArg + run) ELSE work,
     run  |-> run]

countedRun(less, work, lowArg, high, isDescending) ==
    madeRun(work, lowArg, isDescending,
            runEnd(less, work, isDescending, lowArg + 2, high) - lowArg)

\* CountAndMakeRun(lowArg, high): [work, run], work[lowArg..lowArg+run) is
\* ascending under the comparator (a strictly descending run is reversed)
countAndMakeRun(less, work, lowArg, high) ==
    IF lowArg + 1 = high THEN [work |-> work, run |-> 1]
    ELSE countedRun(less, work, lowArg, high,
                    less[At(work, lowArg + 1), At(work, lowArg)])

\* the binary search of BinaryInsertionSort: where pivot goes in work[left..right)
RECURSIVE insertionPoint(_, _, _, _, _)
insertionPoint(less, work, pivot, left, right) ==
    IF left >= right THEN left
    ELSE LET mid == left + ((right - left) \div 2)
         IN  IF less[pivot, At(work, mid)]
             THEN insertionPoint(less, work, pivot, left, mid)
             ELSE insertionPoint(less, work, pivot, mid + 1, right)

\* work with the element at `start` moved down to `left`
insertAt(work, left, start) ==
    SubSeq(work, 1, left) \o <<At(work, start)>> \o SubSeq(work, left + 1, start)
        \o SubSeq(work, start + 2, Len(work))

\* one iteration of BinaryInsertionSort: work[start] goes to its place in
\* work[low..start), the elements from there on move up by one
insertOne(less, work, low, start) ==
    insertAt(work, insertionPoint(less, work, At(work, start), low, start), start)

\* the iterations start = from .. to - 1 of BinaryInsertionSort, the first
\* half of them before the second
RECURSIVE insertRange(_, _, _, _, _)
insertRange(less, work, low, from, to) ==
    IF work = <<>> \/ from >= to THEN work
    ELSE IF from + 1 = to THEN insertOne(less, work, low, from)
    ELSE insertRange(less,
                     insertRange(less, work, low, from, from + ((to - from) \div 2)),
                     low, from + ((to - from) \div 2), to)

\* BinaryInsertionSort(low, startArg, high)
binaryInsertionSort(less, work, low, startArg, high) ==
    insertRange(less, work, low, IF low = startArg THEN startArg + 1 ELSE startArg, high)

\* the galloping loops of GallopLeft and GallopRight: [lastOfs, offset] when
\* the loop ends.  The loop goes on while the element at `offset` from the
\* hint (to the right when step = 1, to the left when step = -1) is on the
\* far side of the key.
RECURSIVE gallop(_, _, _, _, _, _, _, _, _, _)
gallop(less, array, key, at, step, keyFirst, goOnIfNegative, maxOfs, lastOfs, offset) ==
    IF offset >= maxOfs THEN [lastOfs |-> lastOfs, offset |-> offset]
    ELSE IF (IF keyFirst THEN less[key, At(array, at + step * offset)]
             ELSE less[At(array, at + step * offset), key]) # goOnIfNegative
    THEN [lastOfs |-> lastOfs, offset |-> offset]
    ELSE gallop(less, array, key, at, step, keyFirst, goOnIfNegative,
                maxOfs, offset, 2 * offset + 1)

\* the binary search that ends GallopLeft: the first position m in
\* lastOfs..offset with array[base + m] not below key
RECURSIVE searchLeft(_, _, _, _, _, _)
searchLeft(less, array, key, base, lastOfs, offset) ==
    IF lastOfs >= offset THEN offset
    ELSE LET m == lastOfs + ((offset - lastOfs) \div 2)
         IN  IF less[At(array, base + m), key]
             THEN searchLeft(less, array, key, base, m + 1, offset)
             ELSE searchLeft(less, array, key, base, lastOfs, m)

\* the binary search that ends GallopRight: the first position m in
\* lastOfs..offset with key below array[base + m]
RECURSIVE searchRight(_, _, _, _, _, _)
searchRight(less, array, key, base, lastOfs, offset) ==
    IF lastOfs >= offset THEN offset
    ELSE LET m == lastOfs + ((offset - lastOfs) \div 2)
         IN  IF less[key, At(array, base + m)]
             THEN searchRight(less, array, key, base, lastOfs, m)
             ELSE searchRight(less, array, key, base, m + 1, offset)

\* the search of Gallop* between the offsets g the galloping to the right of
\* the hint ended with
searchAfter(g, maxOfs, hint) ==
    [lastOfs |-> g.lastOfs + hint + 1, offset |-> Min(g.offset, maxOfs) + hint]

\* the same after galloping to the left of the hint
searchBefore(g, maxOfs, hint) ==
    [lastOfs |-> hint - Min(g.offset, maxOfs) + 1, offset |-> hint - g.lastOfs]

searchLeftIn(less, array, key, base, r) ==
    searchLeft(less, array, key, base, r.lastOfs, r.offset)

searchRightIn(less, array, key, base, r) ==
    searchRight(less, array, key, base, r.lastOfs, r.offset)

\* GallopLeft(array, key, base, length, hint): the leftmost position of
\* array[base..base+length) before which key can go
gallopLeft(less, array, key, base, length, hint) ==
    searchLeftIn(less, array, key, base,
        IF less[At(array, base + hint), key]
        THEN searchAfter(gallop(less, array, key, base + hint, 1, FALSE, TRUE,
                                length - hint, 0, 1),
                         length - hint, hint)
        ELSE searchBefore(gallop(less, array, key, base + hint, -1, FALSE, FALSE,
                                 hint + 1, 0, 1),
                          hint + 1, hint))

\* GallopRight(array, key, base, length, hint): the rightmost position of
\* array[base..base+length) after which key can go
gallopRight(less, array, key, base, length, hint) ==
    searchRightIn(less, array, key, base,
        IF less[key, At(array, base + hint)]
        THEN searchBefore(gallop(less, array, key, base + hint, -1, TRUE, TRUE,
                                 hint + 1, 0, 1),
                          hint + 1, hint)
        ELSE searchAfter(gallop(less, array, key, base + hint, 1, TRUE, FALSE,
                                length - hint, 0, 1),
                         length - hint, hint))

\* kMinGallopWins
MinGallopWins == 7

\* after a win in the loop that takes one element at a time: the jump to the
\* label when the run that won has `last` elements left, the change to the
\* galloping loop when it has won minGallop times in a row.  m holds the
\* locals of the merge; exit is the label the code jumps to.
afterWin(m, left, last, label, wins) ==
    IF left = last THEN [m EXCEPT !.exit = label]
    ELSE IF wins >= m.minGallop
    THEN [m EXCEPT !.mode = "gallop", !.minGallop = @ + 1, !.first = TRUE]
    ELSE m

\* MergeLow, one iteration of the loop that takes one element at a time
mergeLowOne(less, m) ==
    IF less[At(m.work, m.cursorB), At(m.temp, m.cursorTemp)]
    THEN afterWin([m EXCEPT !.work     = Put(m.work, m.dest, At(m.work, m.cursorB)),
                            !.dest     = @ + 1,
                            !.cursorB  = @ + 1,
                            !.nofWinsB = @ + 1,
                            !.lengthB  = @ - 1,
                            !.nofWinsA = 0],
                  m.lengthB - 1, 0, "Succeed", m.nofWinsB + 1)
    ELSE afterWin([m EXCEPT !.work       = Put(m.work, m.dest, At(m.temp, m.cursorTemp)),
                            !.dest       = @ + 1,
                            !.cursorTemp = @ + 1,
                            !.nofWinsA   = @ + 1,
                            !.lengthA    = @ - 1,
                            !.nofWinsB   = 0],
                  m.lengthA - 1, 1, "CopyB", m.nofWinsA + 1)

\* MergeLow, the galloping loop from `workArray[dest++] = tempArray[cursorTemp++]` on
mergeLowMoveA(m) ==
    IF m.lengthA - 1 = 1
    THEN [m EXCEPT !.work       = Put(m.work, m.dest, At(m.temp, m.cursorTemp)),
                   !.dest       = @ + 1,
                   !.cursorTemp = @ + 1,
                   !.lengthA    = @ - 1,
                   !.exit       = "CopyB"]
    ELSE [m EXCEPT !.work       = Put(m.work, m.dest, At(m.temp, m.cursorTemp)),
                   !.dest       = @ + 1,
                   !.cursorTemp = @ + 1,
                   !.lengthA    = @ - 1]

\* ... from `if (nofWinsB > 0)` on, for the result nofWinsB of GallopLeft
mergeLowTakeB(m, nofWinsB) ==
    IF nofWinsB > 0 /\ m.lengthB - nofWinsB = 0
    THEN [m EXCEPT !.nofWinsB = nofWinsB,
                   !.work     = Copy(m.work, m.cursorB, m.work, m.dest, nofWinsB),
                   !.dest     = @ + nofWinsB,
                   !.cursorB  = @ + nofWinsB,
                   !.lengthB  = @ - nofWinsB,
                   !.exit     = "Succeed"]
    ELSE mergeLowMoveA([m EXCEPT !.nofWinsB = nofWinsB,
                                 !.work     = Copy(m.work, m.cursorB, m.work, m.dest,
                                                   nofWinsB),
                                 !.dest     = @ + nofWinsB,
                                 !.cursorB  = @ + nofWinsB,
                                 !.lengthB  = @ - nofWinsB])

\* ... from `if (--lengthB == 0)` on
mergeLowGallopB(less, m) ==
    IF m.lengthB = 0 THEN [m EXCEPT !.exit = "Succeed"]
    ELSE mergeLowTakeB(m, gallopLeft(less, m.work, At(m.temp, m.cursorTemp),
                                     m.cursorB, m.lengthB, 0))

\* ... from `workArray[dest++] = workArray[cursorB++]` on
mergeLowMoveB(less, m) ==
    mergeLowGallopB(less, [m EXCEPT !.work    = Put(m.work, m.dest, At(m.work, m.cursorB)),
                                    !.dest    = @ + 1,
                                    !.cursorB = @ + 1,
                                    !.lengthB = @ - 1])

\* ... from `if (lengthA == 1) goto CopyB` on
mergeLowTookA(less, m) ==
    IF m.nofWinsA > 0 /\ m.lengthA = 1 THEN [m EXCEPT !.exit = "CopyB"]
    ELSE IF m.nofWinsA > 0 /\ m.lengthA = 0 THEN [m EXCEPT !.exit = "Succeed"]
    ELSE mergeLowMoveB(less, m)

\* ... from `if (nofWinsA > 0)` on, for the result nofWinsA of GallopRight
mergeLowTakeA(less, m, nofWinsA) ==
    mergeLowTookA(less,
        [m EXCEPT !.first      = FALSE,
                  !.minGallop  = Max(1, @ - 1),
                  !.nofWinsA   = nofWinsA,
                  !.work       = Copy(m.temp, m.cursorTemp, m.work, m.dest, nofWinsA),
                  !.dest       = @ + nofWinsA,
                  !.cursorTemp = @ + nofWinsA,
                  !.lengthA    = @ - nofWinsA])

\* MergeLow, one iteration of the galloping loop
mergeLowGallop(less, m) ==
    mergeLowTakeA(less, m, gallopRight(less, m.temp, At(m.work, m.cursorB),
                                       m.cursorTemp, m.lengthA, 0))

\* MergeLow, one step: an iteration of one of the two inner loops, or the
\* return from the galloping loop to the other one
mergeLowStep(less, m) ==
    IF m.mode = "one" THEN mergeLowOne(less, m)
    ELSE IF m.nofWinsA >= MinGallopWins \/ m.nofWinsB >= MinGallopWins \/ m.first
    THEN mergeLowGallop(less, m)
    ELSE [m EXCEPT !.minGallop = @ + 1, !.mode = "one", !.nofWinsA = 0, !.nofWinsB = 0]

\* at most `steps` steps of MergeLow, up to the jump to a label
RECURSIVE mergeLowRun(_, _, _)
mergeLowRun(less, m, steps) ==
    IF m.exit # "" THEN m
    ELSE IF steps <= 1 THEN mergeLowStep(less, m)
    ELSE mergeLowRun(less, mergeLowRun(less, m, steps \div 2), steps - (steps \div 2))

\* MergeLow from the label the loops jumped to: [work, minGallop] afterwards
mergeLowEnd(m) ==
    [work |-> IF m.exit = "Succeed"
              THEN Copy(m.temp, m.cursorTemp, m.work, m.dest, m.lengthA)
              ELSE Put(Copy(m.work, m.cursorB, m.work, m.dest, m.lengthB),
                       m.dest + m.lengthB, At(m.temp, m.cursorTemp)),
     minGallop |-> m.minGallop]

\* MergeLow(baseA, lengthA, baseB, lengthB): [work, minGallop] afterwards
mergeLow(less, work, minGallop, baseA, lengthA, baseB, lengthB) ==
    mergeLowEnd(mergeLowRun(less,
        [work       |-> Put(work, baseA, At(work, baseB)),
         temp       |-> SubSeq(work, baseA + 1, baseA + lengthA),
         dest       |-> baseA + 1,
         cursorTemp |-> 0,
         cursorB    |-> baseB + 1,
         lengthA    |-> lengthA,
         lengthB    |-> lengthB - 1,
         nofWinsA   |-> 0,
         nofWinsB   |-> 0,
         minGallop  |-> minGallop,
         mode       |-> "one",
         first      |-> FALSE,
         exit       |-> IF lengthB - 1 = 0 THEN "Succeed"
                        ELSE IF lengthA = 1 THEN "CopyB" ELSE ""],
        2 * (lengthA + lengthB) + 2))

\* MergeHigh, one iteration of the loop that takes one element at a time
mergeHighOne(less, m) ==
    IF less[At(m.temp, m.cursorTemp), At(m.work, m.cursorA)]
    THEN afterWin([m EXCEPT !.work     = Put(m.work, m.dest, At(m.work, m.cursorA)),
                            !.dest     = @ - 1,
                            !.cursorA  = @ - 1,
                            !.nofWinsA = @ + 1,
                            !.lengthA  = @ - 1,
                            !.nofWinsB = 0],
                  m.lengthA - 1, 0, "Succeed", m.nofWinsA + 1)
    ELSE afterWin([m EXCEPT !.work       = Put(m.work, m.dest, At(m.temp, m.cursorTemp)),
                            !.dest       = @ - 1,
                            !.cursorTemp = @ - 1,
                            !.nofWinsB   = @ + 1,
                            !.lengthB    = @ - 1,
                            !.nofWinsA   = 0],
                  m.lengthB - 1, 1, "CopyA", m.nofWinsB + 1)

\* MergeHigh, the galloping loop from `workArray[dest--] = workArray[cursorA--]` on
mergeHighMoveA(m) ==
    IF m.lengthA - 1 = 0
    THEN [m EXCEPT !.work    = Put(m.work, m.dest, At(m.work, m.cursorA)),
                   !.dest    = @ - 1,
                   !.cursorA = @ - 1,
                   !.lengthA = @ - 1,
                   !.exit    = "Succeed"]
    ELSE [m EXCEPT !.work    = Put(m.work, m.dest, At(m.work, m.cursorA)),
                   !.dest    = @ - 1,
                   !.cursorA = @ - 1,
                   !.lengthA = @ - 1]

\* ... from the labels tested after `if (nofWinsB > 0)` on
mergeHighTookB(m) ==
    IF m.nofWinsB > 0 /\ m.lengthB = 1 THEN [m EXCEPT !.exit = "CopyA"]
    ELSE IF m.nofWinsB > 0 /\ m.lengthB = 0 THEN [m EXCEPT !.exit = "Succeed"]
    ELSE mergeHighMoveA(m)

\* ... from `if (nofWinsB > 0)` on, for the result nofWinsB
mergeHighTakeB(m, nofWinsB) ==
    mergeHighTookB([m EXCEPT !.nofWinsB   = nofWinsB,
                             !.work       = Copy(m.temp, m.cursorTemp - nofWinsB + 1,
                                                 m.work, m.dest - nofWinsB + 1, nofWinsB),
                             !.dest       = @ - nofWinsB,
                             !.cursorTemp = @ - nofWinsB,
                             !.lengthB    = @ - nofWinsB])

\* ... from `if (--lengthB == 1)` on
mergeHighGallopB(less, m) ==
    IF m.lengthB = 1 THEN [m EXCEPT !.exit = "CopyA"]
    ELSE mergeHighTakeB(m, m.lengthB - gallopLeft(less, m.temp, At(m.work, m.cursorA),
                                                  0, m.lengthB, m.lengthB - 1))

\* ... from `workArray[dest--] = tempArray[cursorTemp--]` on
mergeHighMoveB(less, m) ==
    mergeHighGallopB(less,
        [m EXCEPT !.work       = Put(m.work, m.dest, At(m.temp, m.cursorTemp)),
                  !.dest       = @ - 1,
                  !.cursorTemp = @ - 1,
                  !.lengthB    = @ - 1])

\* ... from `if (lengthA == 0) goto Succeed` on
mergeHighTookA(less, m) ==
    IF m.nofWinsA > 0 /\ m.lengthA = 0 THEN [m EXCEPT !.exit = "Succeed"]
    ELSE mergeHighMoveB(less, m)

\* ... from `if (nofWinsA > 0)` on, for the result nofWinsA
mergeHighTakeA(less, m, nofWinsA) ==
    mergeHighTookA(less,
        [m EXCEPT !.first     = FALSE,
                  !.minGallop = Max(1, @ - 1),
                  !.nofWinsA  = nofWinsA,
                  !.work      = Copy(m.work, m.cursorA - nofWinsA + 1, m.work,
                                     m.dest - nofWinsA + 1, nofWinsA),
                  !.dest      = @ - nofWinsA,
                  !.cursorA   = @ - nofWinsA,
                  !.lengthA   = @ - nofWinsA])

\* MergeHigh, one iteration of the galloping loop
mergeHighGallop(less, m) ==
    mergeHighTakeA(less, m,
        m.lengthA - gallopRight(less, m.work, At(m.temp, m.cursorTemp),
                                m.baseA, m.lengthA, m.lengthA - 1))

\* MergeHigh, one step
mergeHighStep(less, m) ==
    IF m.mode = "one" THEN mergeHighOne(less, m)
    ELSE IF m.nofWinsA >= MinGallopWins \/ m.nofWinsB >= MinGallopWins \/ m.first
    THEN mergeHighGallop(less, m)
    ELSE [m EXCEPT !.minGallop = @ + 1, !.mode = "one", !.nofWinsA = 0, !.nofWinsB = 0]

\* at most `steps` steps of MergeHigh, up to the jump to a label
RECURSIVE mergeHighRun(_, _, _)
mergeHighRun(less, m, steps) ==
    IF m.exit # "" THEN m
    ELSE IF steps <= 1 THEN mergeHighStep(less, m)
    ELSE mergeHighRun(less, mergeHighRun(less, m, steps \div 2), steps - (steps \div 2))

\* MergeHigh from the label the loops jumped to: [work, minGallop] afterwards
mergeHighEnd(m) ==
    [work |-> IF m.exit = "Succeed"
              THEN Copy(m.temp, 0, m.work, m.dest - (m.lengthB - 1), m.lengthB)
              ELSE Put(Copy(m.work, m.cursorA - m.lengthA + 1, m.work,
                            m.dest - m.lengthA + 1, m.lengthA),
                       m.dest - m.lengthA, At(m.temp, m.cursorTemp)),
     minGallop |-> m.minGallop]

\* MergeHigh(baseA, lengthA, baseB, lengthB): [work, minGallop] afterwards
mergeHigh(less, work, minGallop, baseA, lengthA, baseB, lengthB) ==
    mergeHighEnd(mergeHighRun(less,
        [work       |-> Put(work, baseB + lengthB - 1, At(work, baseA + lengthA - 1)),
         temp       |-> SubSeq(work, baseB + 1, baseB + lengthB),
         baseA      |-> baseA,
         dest       |-> baseB + lengthB - 2,
         cursorTemp |-> lengthB - 1,
         cursorA    |-> baseA + lengthA - 2,
         lengthA    |-> lengthA - 1,
         lengthB    |-> lengthB,
         nofWinsA   |-> 0,
         nofWinsB   |-> 0,
         minGallop  |-> minGallop,
         mode       |-> "one",
         first      |-> FALSE,
         exit       |-> IF lengthA - 1 = 0 THEN "Succeed"
                        ELSE IF lengthB = 1 THEN "CopyA" ELSE ""],
        2 * (lengthA + lengthB) + 2))

\* the sort state after a merge that gave [work, minGallop]
withMerged(st, merged) ==
    [st EXCEPT !.work = merged.work, !.minGallop = merged.minGallop]

\* MergeAt from `if (lengthB == 0) return` on
mergeTrimmed(less, st, baseA, lengthA, baseB, lengthB) ==
    IF lengthB = 0 THEN st
    ELSE withMerged(st,
             IF lengthA <= lengthB
             THEN mergeLow(less, st.work, st.minGallop, baseA, lengthA, baseB, lengthB)
             ELSE mergeHigh(less, st.work, st.minGallop, baseA, lengthA, baseB, lengthB))

\* MergeAt from `if (lengthA == 0) return` on, for the result k of GallopRight
mergeFrom(less, st, a, b, k) ==
    IF a.length - k = 0 THEN st
    ELSE mergeTrimmed(less, st, a.base + k, a.length - k, b.base,
                      gallopLeft(less, st.work, At(st.work, a.base + a.length - 1),
                                 b.base, b.length, b.length - 1))

\* MergeAt for the runs a and b, which the stack of st holds as one run already
mergeRuns(less, st, a, b) ==
    mergeFrom(less, st, a, b,
              gallopRight(less, st.work, At(st.work, b.base), a.base, a.length, 0))

\* the stack of pending runs with the runs i and i + 1 as one
joinedRuns(runs, i) ==
    SubSeq(runs, 1, i)
        \o <<[base |-> runs[i + 1].base, length |-> runs[i + 1].length + runs[i + 2].length]>>
        \o SubSeq(runs, i + 3, Len(runs))

\* MergeAt(i): the runs i and i + 1 of the stack of pending runs are merged.
\* st is the sort state [work, runs, minGallop, low, remaining]; a run is
\* [base, length].
mergeAt(less, st, i) ==
    mergeRuns(less, [st EXCEPT !.runs = joinedRuns(st.runs, i)],
              st.runs[i + 1], st.runs[i + 2])

runLengthAt(runs, n) == runs[n + 1].length

\* RunInvariantEstablished(pendingRuns, n)
runInvariantEstablished(runs, n) ==
    n < 2 \/ runLengthAt(runs, n - 2) > runLengthAt(runs, n - 1) + runLengthAt(runs, n)

\* the run that an iteration of the loop of MergeCollapse merges, for
\* n = size - 2; -1 when the loop breaks
collapseAt(runs, n) ==
    IF ~runInvariantEstablished(runs, n + 1) \/ ~runInvariantEstablished(runs, n)
    THEN (IF runLengthAt(runs, n - 1) < runLengthAt(runs, n + 1) THEN n - 1 ELSE n)
    ELSE IF runLengthAt(runs, n) <= runLengthAt(runs, n + 1) THEN n
    ELSE -1

RECURSIVE mergeCollapse(_, _)

mergeCollapseAt(less, st, i) ==
    IF i < 0 THEN st ELSE mergeCollapse(less, mergeAt(less, st, i))

\* MergeCollapse
mergeCollapse(less, st) ==
    IF Len(st.runs) <= 1 THEN st
    ELSE mergeCollapseAt(less, st, collapseAt(st.runs, Len(st.runs) - 2))

\* MergeForceCollapse
RECURSIVE mergeForceCollapse(_, _)
mergeForceCollapse(less, st) ==
    IF Len(st.runs) <= 1 THEN st
    ELSE LET n == Len(st.runs) - 2
         IN  mergeForceCollapse(less,
                 mergeAt(less, st,
                         IF n > 0 /\ runLengthAt(st.runs, n - 1) < runLengthAt(st.runs, n + 1)
                         THEN n - 1 ELSE n))

\* the sort state with the run of `run` elements at st.low pushed
withRun(st, work, run) ==
    [st EXCEPT !.work      = work,
               !.runs      = Append(@, [base |-> st.low, length |-> run]),
               !.low       = @ + run,
               !.remaining = @ - run]

\* the counted run is extended to the minimal run length, pushed, and the
\* stack merged as it asks
pushRun(less, st, counted, minRunLength) ==
    mergeCollapse(less,
        IF counted.run < minRunLength
        THEN withRun(st,
                     binaryInsertionSort(less, counted.work, st.low,
                                         st.low + counted.run,
                                         st.low + Min(minRunLength, st.remaining)),
                     Min(minRunLength, st.remaining))
        ELSE withRun(st, counted.work, counted.run))

\* one iteration of the loop of ArrayTimSortImpl
nextRun(less, st, minRunLength) ==
    pushRun(less, st, countAndMakeRun(less, st.work, st.low, st.low + st.remaining),
            minRunLength)

\* at most `steps` iterations of the loop of ArrayTimSortImpl
RECURSIVE sortRuns(_, _, _, _)
sortRuns(less, st, minRunLength, steps) ==
    IF st.remaining = 0 THEN st
    ELSE IF steps <= 1 THEN nextRun(less, st, minRunLength)
    ELSE sortRuns(less, sortRuns(less, st, minRunLength, steps \div 2),
                  minRunLength, steps - (steps \div 2))

\* ArrayTimSortImpl on the array arr
timSort(less, arr) ==
    mergeForceCollapse(less,
        sortRuns(less,
                 [work |-> arr, runs |-> <<>>, minGallop |-> MinGallopWins,
                  low |-> 0, remaining |-> Len(arr)],
                 computeMinRunLength(Len(arr), 0), Len(arr))).work

\* Array.prototype.sort((a, b) => ...) on arr, the comparator reading vols
sort(vols, arr) ==
    IF Len(arr) < 2 THEN arr
    ELSE timSort([a \in Range(arr), b \in Range(arr) |-> orderIsNegative(vols, a, b)],
                 arr)

\* mutant: the volume floor is not applied
topPairsNoFloor(scores, vols) == sort(vols, scores)

\* Array.from(volatilityScores.entries()).filter(...).sort(...)
topPairs(scores, vols) ==
    sort(vols, SelectSeq(scores, LAMBDA e : Ge(GetNumber(vols, e.key), Num(minVolume))))

\* the result for the sorted pairs `top`
bestOf(top, hasError) ==
    IF Len(top) = 0
    THEN [symbol |-> Null, moves |-> Num(0), hasError |-> hasError]
    ELSE [symbol   |-> top[1].key,
          moves    |-> MathRound(Mul(top[1].value, Num(100))),
          hasError |-> hasError]

findBestPerformer(scores, vols, hasError) == bestOf(topPairs(scores, vols), hasError)

-----------------------------------------------------------------------------
(* SymbolScanner.cleanupOldData *)

RetentionMs == 120000

cleanupOldData(history, now) ==
    [i \in DOMAIN history |->
        [key   |-> history[i].key,
         value |-> SelectSeq(history[i].value,
                             LAMBDA p : p.timestamp >= now - RetentionMs)]]

-----------------------------------------------------------------------------
(* SymbolScanner.reset *)

\* mutant: reset() does not clear the volumes
resetKeepingVolumes ==
    [priceHistory       |-> <<>>,
     volatilityScores   |-> <<>>,
     volumes            |-> volumes,
     hasErrorThisMinute |-> FALSE]

\* mutant: reset() leaves the error flag as it is
resetKeepingError ==
    [priceHistory       |-> <<>>,
     volatilityScores   |-> <<>>,
     volumes            |-> <<>>,
     hasErrorThisMinute |-> hasErrorThisMinute]

\* the four assignments of reset(): the three maps are cleared, the flag is false
reset ==
    [priceHistory       |-> <<>>,
     volatilityScores   |-> <<>>,
     volumes            |-> <<>>,
     hasErrorThisMinute |-> FALSE]

-----------------------------------------------------------------------------
(* The state after `new SymbolScanner()`, and the history variables' start *)

NoResult == [symbol |-> Null, moves |-> Num(0), hasError |-> FALSE]

\* `let lastUpdate = {symbol: null, moves: 0, timestamp: null}`; the null
\* timestamp is 0 here: both are falsy, and Date.now() is never 0
NoUpdate == [symbol |-> Null, moves |-> Num(0), timestamp |-> 0]

\* no request is answered
NoReply == [path |-> "", query |-> <<>>, status |-> 0, body |-> <<>>]

NoPreReset == [scored |-> FALSE, hasError |-> FALSE, samples |-> 0]

\* the fields the constructor sets, with nothing started
Constructed ==
    /\ idleStart = 0
    /\ isRunning = FALSE
    /\ intervalId = 0
    /\ pending = <<>>
    /\ events = <<>>
    /\ result = NoResult
    /\ ops = <<>>
    /\ finals = {}
    /\ failedMinutes = {}
    /\ preReset = NoPreReset
    /\ alive = TRUE
    /\ rejected = {}
    /\ timers = {}
    /\ calls = 0
    /\ lastUpdate = NoUpdate
    /\ currentSymbol = <<>>
    /\ symbolHistory = <<>>
    /\ reply = NoReply
    /\ polled = <<>>
    /\ lastSeen = 0

-----------------------------------------------------------------------------
(* The methods of the class called one at a time on drawn inputs           *)

\* the time at which the drawn histories are observed
DrawTime == 300000

\* a price sample taken `age` ms before DrawTime
Sample(p, age) == [price |-> p, timestamp |-> DrawTime - age]

\* what is left alone when a single method is called on the object
callFrame == <<variant, idleStart, isRunning, intervalId, pending, events, finals,
               failedMinutes, preReset, alive, rejected, timers, calls,
               lastUpdate, currentSymbol, symbolHistory, reply, polled, lastSeen>>

FnCalculateVolatility ==
    /\ volatilityScores' = calculateVolatility(priceHistory, clock)
    /\ ops' = <<"calculateVolatility">>
    /\ UNCHANGED <<clock, priceHistory, volumes, hasErrorThisMinute, result>>
    /\ UNCHANGED callFrame

FnFindBestPerformer ==
    /\ result' = findBestPerformer(volatilityScores, volumes, hasErrorThisMinute)
    /\ ops' = <<"findBestPerformer">>
    /\ UNCHANGED <<clock, priceHistory, volatilityScores, volumes, hasErrorThisMinute>>
    /\ UNCHANGED callFrame

FnCleanupOldData ==
    /\ priceHistory' = cleanupOldData(priceHistory, clock)
    /\ ops' = <<"cleanupOldData">>
    /\ UNCHANGED <<clock, volatilityScores, volumes, hasErrorThisMinute, result>>
    /\ UNCHANGED callFrame

FnReset ==
    /\ priceHistory' = reset.priceHistory
    /\ volatilityScores' = reset.volatilityScores
    /\ volumes' = reset.volumes
    /\ hasErrorThisMinute' = reset.hasErrorThisMinute
    /\ ops' = <<"reset">>
    /\ UNCHANGED <<clock, result>>
    /\ UNCHANGED callFrame

\* time passes between two calls
AdvanceMs == 30000

MaxAdvances == 3

FnAdvance ==
    /\ clock < DrawTime + MaxAdvances * AdvanceMs
    /\ clock' = clock + AdvanceMs
    /\ ops' = <<>>
    /\ UNCHANGED <<priceHistory, volatilityScores, volumes, hasErrorThisMinute, result>>
    /\ UNCHANGED callFrame

\* all ways to insert the symbols of a set into a Map, one after the other
RECURSIVE Orders(_)
Orders(S) ==
    IF S = {} THEN {<<>>}
    ELSE UNION {{Append(o, x) : o \in Orders(S \ {x})} : x \in S}

\* a Map with the keys of `order`, in that order, valued by f
MapOf(order, f) == [i \in DOMAIN order |-> [key |-> order[i], value |-> f[order[i]]]]

\* every history with every volume
Draws(histories, vols) == {[history |-> h, volume |-> v] : h \in histories, v \in vols}

\* the scanner's maps hold some of the symbols, inserted in any order, each
\* with one of the draws; the error flag is one of `flags`
DrawnInit(symbols, draws, flags) ==
    /\ variant = "server"
    /\ clock = DrawTime
    /\ \E S \in SUBSET symbols :
       \E order \in Orders(S) :
       \E d \in [S -> draws] :
          /\ priceHistory = MapOf(order, [x \in S |-> d[x].history])
          /\ volumes = MapOf(order, [x \in S |-> d[x].volume])
    /\ volatilityScores = <<>>
    /\ hasErrorThisMinute \in flags
    /\ Constructed

(* The estimator: calculateVolatility, cleanupOldData and reset over histories
   that hold samples inside and outside the 60 s window *)

EstimatorSymbols == {AUSDT, BUSDT}

EstimatorHistories ==
    { <<Sample(Num(1000), 10000)>>,
      <<Sample(Num(1000), 90000), Sample(Num(1001), 10000)>>,
      <<Sample(Num(100), 30000), Sample(Num(101), 20000), Sample(Num(99), 10000)>>,
      <<Sample(Num(990), 90000), Sample(Num(1000), 20000), Sample(Num(1001), 10000)>>,
      <<Sample(Num(1000), 130000), Sample(Num(1000), 59000), Sample(Num(1003), 1000)>>,
      <<Sample(Num(1000), 60000), Sample(Num(1002), 0)>>,
      <<Sample(Num(1000), 20000), Sample(Num(1000), 10000)>>,
      <<Sample(NaN, 20000), Sample(Num(1000), 10000)>>,
      \* the exact score is 0.225; in binary64 it is 0.22499999999999998
      <<Sample(Num(4000), 30000), Sample(Num(4003), 20000), Sample(Num(3997), 10000)>> }

EstimatorVolumes == {Num(20000000)}

EstimatorInit ==
    DrawnInit(EstimatorSymbols, Draws(EstimatorHistories, EstimatorVolumes), BOOLEAN)

EstimatorNext ==
    \/ FnCalculateVolatility
    \/ FnFindBestPerformer
    \/ FnCleanupOldData
    \/ FnReset
    \/ FnAdvance

SpecEstimator == EstimatorInit /\ [][EstimatorNext]_vars

(* The selector: findBestPerformer over score maps with near-tied scores, in
   every insertion order, with volumes below, at and above the floor *)

SelectorSymbols == {AUSDT, BUSDT, CUSDT}

\* scores 0.0999500..., 0.0998501... and 0.0997506...: neighbours are within
\* 0.0001 of each other, the first and the last are not
Near1 == <<Sample(Num(1000), 20000), Sample(Num(1001), 10000)>>

Near2 == <<Sample(Num(1001), 20000), Sample(Num(1002), 10000)>>

Near3 == <<Sample(Num(1002), 20000), Sample(Num(1003), 10000)>>

\* the exact scores are 0.0003 and 0.0002; in binary64 they are
\* 0.00030000000000000003 and 0.00019999999999999998, more than 0.0001 apart
Edge1 == <<Sample(Num(3000000), 30000), Sample(Num(3000003), 20000),
           Sample(Num(2999997), 10000)>>

Edge2 == <<Sample(Num(3000000), 30000), Sample(Num(3000002), 20000),
           Sample(Num(2999998), 10000)>>

\* score 3
Far == <<Sample(Num(100), 30000), Sample(Num(101), 20000), Sample(Num(99), 10000)>>

SelectorDraws ==
    Draws({Near1, Near3}, {Num(10000000), Num(30000000)})
        \cup Draws({Near2, Edge2}, {Num(20000000)})
        \cup Draws({Far}, {Num(9999999), Num(10000000)})
        \cup Draws({Edge1}, {Num(10000000)})

SelectorInit == DrawnInit(SelectorSymbols, SelectorDraws, {FALSE})

SelectorNext ==
    \/ FnCalculateVolatility
    \/ FnFindBestPerformer

SpecSelector == SelectorInit /\ [][SelectorNext]_vars

-----------------------------------------------------------------------------
(* SymbolScanner.processMinute, start, stop and the timer *)

IntervalMs == 1000

\* Date.prototype.getSeconds
getSeconds(now) == (now \div 1000) % 60

\* the wall-clock minute a time lies in
minuteOf(now) == now \div 60000

\* the process starts 56 s into a minute, on a whole second, so that the
\* firings of the timer fall next to the edge of a second; the timer is
\* followed until a callback has read a time MaxTicks seconds after the start
StartClock == 56000

\* a callback of the timer reads the clock IntervalMs after the callback
\* before it did, up to MaxEarliness ms less or MaxLateness ms more
MaxEarliness == 1

MaxLateness == 1

\* the differences add up: the clock is followed while the times read are
\* within MaxDrift ms of a whole second, before it or after it
MaxDrift == 1

\* how far a time is from the whole second nearest to it: negative before it
offset(t) == ((t + IntervalMs \div 2) % IntervalMs) - IntervalMs \div 2

\* the time that passes before a read of the clock: from the last read to the
\* handling of a response, and from one read to the next in one callback
\* (`new Date()` of processMinute and Date.now() of the listener; currentTime
\* of fetchTickers and `now` of calculateVolatility; `new Date()` and
\* Date.now() of the listener of part_000): up to MaxDelay ms
MaxDelay == 1

\* the time t is within MaxDrift ms of a whole second
nearSecond(t) == offset(t) \in -MaxDrift..MaxDrift

\* the times the clock may be read as, when it was last read as `last`
reads(last) ==
    {t \in last..(last + MaxDelay) : t = last \/ nearSecond(t)}

\* how many network calls may be outstanding at once
MaxPending == 2

\* the start() calls the file makes: server.js line 183; part_000 lines 218, 433
startCalls(file) == IF file = "server" THEN 1 ELSE 2

\* Array.prototype.find(t => t.symbol === symbol): the index, 0 when none
RECURSIVE findTicker(_, _, _)
findTicker(list, symbol, i) ==
    IF i > Len(list) THEN 0
    ELSE IF "symbol" \in DOMAIN list[i] /\ list[i].symbol = symbol THEN i
    ELSE findTicker(list, symbol, i + 1)

\* the index of the winner's ticker in the lookup's response; 0 when the request
\* or the parse failed, the body has no list, or the list lacks the winner
lookupTicker(response, symbol) ==
    IF response.status # "json" THEN 0
    ELSE IF ~hasList(response.data) THEN 0
    ELSE findTicker(response.data.result.list, symbol, 1)

\* `seconds < 59`: the tick fetches and recomputes the scores
accumulates(seconds) == seconds < 59

\* `!result.hasError && result.symbol`
shouldPublish(r) == ~r.hasError /\ r.symbol # Null

\* this.emit('bestPerformerFound', payload), for the finalize step of `minute`
emit(log, minute, at, payload) ==
    Append(log, [minute |-> minute, at |-> at, payload |-> payload])

\* `24 * 60 * 60 * 1000`
DayMs == 24 * 60 * 60 * 1000

\* server.js: the listener of 'bestPerformerFound' assigns lastUpdate
onBestPerformerFound(data, now) ==
    [symbol |-> data.symbol, moves |-> data.moves, timestamp |-> now]

\* mutant: the new entry is put at the end of the history
consumeAppending(st, data, now, later) ==
    IF data.symbol # Null /\ ~("hasError" \in DOMAIN data /\ data.hasError)
    THEN LET symbolData == [symbol      |-> data.symbol,
                            moves       |-> data.moves,
                            turnover    |-> data.turnover,
                            fundingRate |-> data.fundingRate,
                            timestamp   |-> now]
         IN  [currentSymbol |-> <<symbolData>>,
              symbolHistory |-> SelectSeq(st.symbolHistory \o <<symbolData>>,
                                          LAMBDA item : item.timestamp > later - DayMs)]
    ELSE st

\* part_000: the listener of 'bestPerformerFound'; st is [currentSymbol,
\* symbolHistory].  The new entry is stamped with `new Date()`, read as now,
\* and put first; then the entries that are 24 hours old or older by
\* Date.now(), read as later, are filtered out.
consume(st, data, now, later) ==
    IF data.symbol # Null /\ ~("hasError" \in DOMAIN data /\ data.hasError)
    THEN LET symbolData == [symbol      |-> data.symbol,
                            moves       |-> data.moves,
                            turnover    |-> data.turnover,
                            fundingRate |-> data.fundingRate,
                            timestamp   |-> now]
         IN  [currentSymbol |-> <<symbolData>>,
              symbolHistory |-> SelectSeq(<<symbolData>> \o st.symbolHistory,
                                          LAMBDA item : item.timestamp > later - DayMs)]
    ELSE st

\* the number of samples held in the first n entries of the history
RECURSIVE sampleCount(_, _)
sampleCount(history, n) ==
    IF n = 0 THEN 0 ELSE sampleCount(history, n - 1) + Len(history[n].value)

processFrame == <<variant, isRunning, intervalId, alive, rejected, timers, calls,
                  polled, lastSeen>>

\* the state of the 'bestPerformerFound' listeners
listenerFrame == <<lastUpdate, currentSymbol, symbolHistory>>

\* the time from which the run is followed: the load of the file, or a day
\* after it
Origin == IF clock >= StartClock + DayMs THEN StartClock + DayMs ELSE StartClock

\* the callbacks of the timer are followed until one has read a time at or
\* after the horizon, and the requests made before the horizon are followed to
\* their responses
Horizon == Origin + MaxTicks * IntervalMs

canTick ==
    /\ alive
    /\ clock <= Horizon
    /\ idleStart < Horizon

\* the times the next callback of setInterval(..., 1000) may read as `now`:
\* IntervalMs after the time the callback before it read (after the time of
\* start(), for the first), a little less or more, and not before the time
\* that was read last
firings ==
    {now \in (idleStart + IntervalMs - MaxEarliness)
                 ..(idleStart + IntervalMs + MaxLateness) :
        now >= clock /\ nearSecond(now)}

\* a callback of the timer reads the clock as `now`, and the clock is last
\* read in it as `last`
timePasses(now, last) ==
    /\ idleStart' = now
    /\ clock' = last

\* a second passes with no timer set
TickIdle ==
    /\ canTick
    /\ timers = {}
    /\ clock' = clock + IntervalMs
    /\ ops' = <<>>
    /\ UNCHANGED <<idleStart, priceHistory, volatilityScores, volumes,
                   hasErrorThisMinute, pending, events, result, finals,
                   failedMinutes, preReset>>
    /\ UNCHANGED processFrame
    /\ reply' = NoReply
    /\ UNCHANGED listenerFrame

\* the timer fires at second 0: reset(), then the fetch is started
TickReset ==
    /\ canTick
    /\ timers # {}
    /\ \E now \in firings :
          /\ getSeconds(now) = 0
          /\ timePasses(now, now)
          /\ IF accumulates(getSeconds(now))
             THEN /\ Len(pending) < MaxPending
                  /\ pending' = Append(pending, [kind |-> "fetch", started |-> now,
                                                 result |-> NoResult])
                  /\ ops' = <<"processMinute", "reset", "fetchTickers">>
             ELSE /\ pending' = pending
                  /\ ops' = <<"processMinute", "reset">>
    /\ preReset' = [scored   |-> volatilityScores # <<>>,
                    hasError |-> hasErrorThisMinute,
                    samples  |-> sampleCount(priceHistory, Len(priceHistory))]
    /\ priceHistory' = reset.priceHistory
    /\ volatilityScores' = reset.volatilityScores
    /\ volumes' = reset.volumes
    /\ hasErrorThisMinute' = reset.hasErrorThisMinute
    /\ UNCHANGED <<events, result, finals, failedMinutes>>
    /\ UNCHANGED processFrame
    /\ reply' = NoReply
    /\ UNCHANGED listenerFrame

\* the timer fires at seconds 1..58: the fetch is started
TickAccumulate ==
    /\ canTick
    /\ timers # {}
    /\ Len(pending) < MaxPending
    /\ \E now \in firings :
          /\ getSeconds(now) # 0
          /\ getSeconds(now) # 59
          /\ accumulates(getSeconds(now))
          /\ timePasses(now, now)
          /\ pending' = Append(pending, [kind |-> "fetch", started |-> now,
                                         result |-> NoResult])
    /\ ops' = <<"processMinute", "fetchTickers">>
    /\ UNCHANGED <<priceHistory, volatilityScores, volumes, hasErrorThisMinute,
                   events, result, finals, failedMinutes, preReset>>
    /\ UNCHANGED processFrame
    /\ reply' = NoReply
    /\ UNCHANGED listenerFrame

\* the finalize branch of a processMinute that began at `now`, once
\* findBestPerformer() gave r: the publication (server.js), whose listener
\* reads the clock again, or the start of the supplementary lookup (part_000)
finalize(now, r) ==
    /\ result' = r
    /\ finals' = finals \cup
           {[minute |-> minuteOf(now), symbol |-> r.symbol,
             hasError |-> r.hasError]}
    /\ IF ~shouldPublish(r)
       THEN /\ timePasses(now, now)
            /\ ops' = <<"processMinute", "findBestPerformer">>
            /\ UNCHANGED <<events, pending>>
            /\ UNCHANGED listenerFrame
       ELSE IF variant = "server"
       THEN /\ \E at \in reads(now) :
                  /\ timePasses(now, at)
                  /\ events' = emit(events, minuteOf(now), at, r)
                  /\ lastUpdate' = onBestPerformerFound(r, at)
            /\ ops' = <<"processMinute", "findBestPerformer", "emit">>
            /\ UNCHANGED <<pending, currentSymbol, symbolHistory>>
       ELSE /\ Len(pending) < MaxPending
            /\ timePasses(now, now)
            /\ pending' = Append(pending, [kind |-> "lookup", started |-> now,
                                           result |-> r])
            /\ ops' = <<"processMinute", "findBestPerformer", "fetch">>
            /\ UNCHANGED events
            /\ UNCHANGED listenerFrame

\* the timer fires at second 59: findBestPerformer(), then the rest of the
\* finalize branch
TickFinalize ==
    /\ canTick
    /\ timers # {}
    /\ \E now \in firings :
          /\ getSeconds(now) = 59
          /\ finalize(now, findBestPerformer(volatilityScores, volumes,
                                             hasErrorThisMinute))
    /\ UNCHANGED <<priceHistory, volatilityScores, volumes, hasErrorThisMinute,
                   failedMinutes, preReset>>
    /\ UNCHANGED processFrame
    /\ reply' = NoReply

remove(seq, i) == SubSeq(seq, 1, i - 1) \o SubSeq(seq, i + 1, Len(seq))

\* mutant: the samples are stamped with the time the request was made
currentTimeOfRequest(started, returned) == started

\* `const currentTime = new Date()` after the awaits: the samples of a
\* snapshot are stamped with the time its response is processed
currentTime(started, returned) == returned

\* the accumulate branch of processMinute once fetchTickers() left the fields
\* f: calculateVolatility() runs on the history it left and reads the clock
\* as `at`
accumulate(f, at) ==
    /\ priceHistory' = f.priceHistory
    /\ volumes' = f.volumes
    /\ hasErrorThisMinute' = f.hasErrorThisMinute
    /\ volatilityScores' = calculateVolatility(f.priceHistory, at)
    /\ clock' = at

\* a pending fetchTickers() gets its response: the clock is read as `at`, the
\* samples are stamped with it, a failure falls in the minute of it, and
\* processMinute goes on to calculateVolatility(), which reads the clock as
\* `later`
FetchReturns ==
    /\ alive
    /\ \E i \in DOMAIN pending :
       \E response \in Responses :
       \E at \in reads(clock) :
       \E later \in reads(at) :
          /\ pending[i].kind = "fetch"
          /\ pending[i].started < Horizon
          /\ accumulate(fetchTickers(response, priceHistory, volumes,
                                     hasErrorThisMinute,
                                     currentTime(pending[i].started, at)),
                        later)
          /\ failedMinutes' = IF fetchFailed(response)
                              THEN failedMinutes \cup {minuteOf(at)}
                              ELSE failedMinutes
          /\ pending' = remove(pending, i)
          /\ ops' = IF fetchFailed(response)
                    THEN <<"fetchTickers", "catch", "calculateVolatility">>
                    ELSE <<"fetchTickers", "calculateVolatility">>
    /\ UNCHANGED <<idleStart, events, result, finals, preReset>>
    /\ UNCHANGED processFrame
    /\ reply' = NoReply
    /\ UNCHANGED listenerFrame

\* part_000: the object emitted for the winner r, whose ticker the
\* supplementary lookup found
payloadOf(r, ticker) ==
    [symbol      |-> r.symbol,
     moves       |-> r.moves,
     turnover    |-> toFixed(Div(parseFloat(ticker, "turnover24h"), Num(1000000)), 2),
     fundingRate |-> toFixed(Mul(parseFloat(ticker, "fundingRate"), Num(100)), 4)]

\* part_000: this.emit('bestPerformerFound', payload) for the finalize step of
\* `minute`, and the listener, which reads the clock as `at` and then as
\* `later`
publish(minute, payload, at, later) ==
    LET st == consume([currentSymbol |-> currentSymbol,
                       symbolHistory |-> symbolHistory], payload, at, later)
    IN  /\ events' = emit(events, minute, at, payload)
        /\ currentSymbol' = st.currentSymbol
        /\ symbolHistory' = st.symbolHistory
        /\ clock' = later

\* the supplementary lookup of part_000 gets a response that lists the winner:
\* the event is emitted, and the listener reads the clock as `at` and again
\* as `later`
LookupReturns ==
    /\ alive
    /\ \E i \in DOMAIN pending :
       \E response \in Responses :
       \E at \in reads(clock) :
       \E later \in reads(at) :
          /\ pending[i].kind = "lookup"
          /\ lookupTicker(response, pending[i].result.symbol) # 0
          /\ publish(minuteOf(pending[i].started),
                     payloadOf(pending[i].result,
                               response.data.result.list[
                                   lookupTicker(response, pending[i].result.symbol)]),
                     at, later)
          /\ pending' = remove(pending, i)
          /\ ops' = <<"emit">>
    /\ UNCHANGED <<idleStart, priceHistory, volatilityScores, volumes,
                   hasErrorThisMinute, result, finals, failedMinutes, preReset,
                   lastUpdate>>
    /\ UNCHANGED processFrame
    /\ reply' = NoReply

\* the supplementary lookup fails, or its list lacks the winner (ticker is
\* undefined and ticker.fundingRate throws): processMinute's promise rejects.
\* Nothing handles the rejection; node ends the process or only warns,
\* depending on its version.
LookupThrows ==
    /\ alive
    /\ \E i \in DOMAIN pending :
       \E response \in Responses :
          /\ pending[i].kind = "lookup"
          /\ lookupTicker(response, pending[i].result.symbol) = 0
          /\ rejected' = rejected \cup {minuteOf(pending[i].started)}
          /\ pending' = remove(pending, i)
    /\ alive' \in BOOLEAN
    /\ ops' = <<"throw">>
    /\ UNCHANGED <<variant, clock, idleStart, isRunning, intervalId, timers, calls,
                   priceHistory, volatilityScores, volumes, hasErrorThisMinute,
                   events, result, finals, failedMinutes, preReset,
                   polled, lastSeen>>
    /\ reply' = NoReply
    /\ UNCHANGED listenerFrame

\* mutant: start() sets a timer whether or not the scanner is running
startAlways ==
    /\ calls' = calls + 1
    /\ isRunning' = TRUE
    /\ intervalId' = calls + 1
    /\ timers' = timers \cup {calls + 1}
    /\ idleStart' = clock
    /\ ops' = <<"start">>
    /\ UNCHANGED <<variant, clock, priceHistory, volatilityScores, volumes,
                   hasErrorThisMinute, pending, events, result, finals,
                   failedMinutes, preReset, alive, rejected, polled, lastSeen>>
    /\ reply' = NoReply
    /\ UNCHANGED listenerFrame

\* start(): a timer is set unless the scanner is running
start ==
    /\ calls' = calls + 1
    /\ IF ~isRunning
       THEN /\ isRunning' = TRUE
            /\ intervalId' = calls + 1
            /\ timers' = timers \cup {calls + 1}
            /\ idleStart' = clock
       ELSE UNCHANGED <<isRunning, intervalId, timers, idleStart>>
    /\ ops' = <<"start">>
    /\ UNCHANGED <<variant, clock, priceHistory, volatilityScores, volumes,
                   hasErrorThisMinute, pending, events, result, finals,
                   failedMinutes, preReset, alive, rejected, polled, lastSeen>>
    /\ reply' = NoReply
    /\ UNCHANGED listenerFrame

\* the file calls scanner.start()
Start ==
    /\ alive
    /\ calls < startCalls(variant)
    /\ start

\* stop(): the timer is cleared if the scanner is running
stop ==
    /\ calls' = calls + 1
    /\ IF isRunning /\ intervalId # 0
       THEN /\ timers' = timers \ {intervalId}
            /\ intervalId' = 0
            /\ isRunning' = FALSE
       ELSE UNCHANGED <<isRunning, intervalId, timers>>
    /\ ops' = <<"stop">>
    /\ UNCHANGED <<variant, clock, idleStart, priceHistory, volatilityScores, volumes,
                   hasErrorThisMinute, pending, events, result, finals,
                   failedMinutes, preReset, alive, rejected, polled, lastSeen>>
    /\ reply' = NoReply
    /\ UNCHANGED listenerFrame

\* either file has been loaded at time `at`
InitAt(at) ==
    /\ variant \in {"server", "part"}
    /\ clock = at
    /\ priceHistory = <<>>
    /\ volatilityScores = <<>>
    /\ volumes = <<>>
    /\ hasErrorThisMinute = FALSE
    /\ Constructed

Init == InitAt(StartClock)

Next ==
    \/ Start
    \/ TickReset
    \/ TickAccumulate
    \/ TickFinalize
    \/ FetchReturns
    \/ LookupReturns
    \/ LookupThrows

Spec == Init /\ [][Next]_vars

-----------------------------------------------------------------------------
(* start() and stop() called in any order while the timer runs; the ticks'
   requests are still outstanding *)

MaxCalls == 3

CallStart ==
    /\ alive
    /\ calls < MaxCalls
    /\ start

CallStop ==
    /\ alive
    /\ calls < MaxCalls
    /\ stop

LifecycleNext ==
    \/ CallStart
    \/ CallStop
    \/ TickIdle
    \/ TickReset
    \/ TickAccumulate
    \/ TickFinalize

SpecLifecycle == Init /\ [][LifecycleNext]_vars

-----------------------------------------------------------------------------
(* The HTTP layer: GET /api/updates (server.js) and its page, GET /api/symbols
   (part_000), while the scanner runs *)

HexDigits ==
    <<"0", "1", "2", "3", "4", "5", "6", "7", "8", "9", "a", "b", "c", "d", "e", "f">>

UpperHexDigits ==
    <<"0", "1", "2", "3", "4", "5", "6", "7", "8", "9", "A", "B", "C", "D", "E", "F">>

hexValue(c) ==
    (CHOOSE d \in 1..16 : HexDigits[d] = c \/ UpperHexDigits[d] = c) - 1

\* the whole number whose hexadecimal digits are s[i..j]
RECURSIVE BigOfHexDigits(_, _, _)
BigOfHexDigits(s, i, j) ==
    IF i > j THEN <<>>
    ELSE IF i = j THEN BigOfInt(hexValue(s[i]))
    ELSE LET mid == (i + j) \div 2
         IN  BigAdd(BigShl(BigOfHexDigits(s, i, mid), 4 * (j - mid)),
                    BigOfHexDigits(s, mid + 1, j))

skipHexDigits(s, i) ==
    skip(s, i, {HexDigits[d] : d \in 1..16} \cup {UpperHexDigits[d] : d \in 1..16})

\* sign * m, for the whole number m that the digits str[from..end-1] spell
parseIntOfDigits(sign, m, from, end) ==
    IF end = from THEN NaN ELSE RoundToDouble(sign, m, 0, FALSE)

parseIntOfUnsigned(str, sign, j) ==
    IF startsWithAt(str, <<"0", "x">>, j) \/ startsWithAt(str, <<"0", "X">>, j)
    THEN parseIntOfDigits(sign,
                          BigOfHexDigits(str, j + 2, skipHexDigits(str, j + 2) - 1),
                          j + 2, skipHexDigits(str, j + 2))
    ELSE parseIntOfDigits(sign, BigOfDigits(str, j, skipDigits(str, j) - 1),
                          j, skipDigits(str, j))

parseIntOfTrimmed(str, i) == parseIntOfUnsigned(str, signAt(str, i), afterSign(str, i))

\* parseInt(req.query.lastUpdate): the query is <<>> when the parameter is
\* absent (undefined) and <<s>> when it is the string s.  Leading white space
\* and a sign are accepted, then the digits that follow are read (hexadecimal
\* ones after 0x), anything after them is ignored; with no digit the value is
\* NaN.
parseInt(query) ==
    IF query = <<>> THEN NaN ELSE parseIntOfTrimmed(query[1], skipSpace(query[1], 1))

\* `parseInt(req.query.lastUpdate) || 0`: NaN, 0 and -0 become 0
lastUpdateTime(query) ==
    LET n == parseInt(query) IN IF isNaN(n) \/ isZero(n) THEN Num(0) ELSE n

\* mutant: an update is sent again to a client that already has it
getUpdatesInclusive(update, query) ==
    IF update.timestamp # 0 /\ Ge(Num(update.timestamp), lastUpdateTime(query))
    THEN [path |-> "/api/updates", query |-> query, status |-> 200, body |-> <<update>>]
    ELSE [path |-> "/api/updates", query |-> query, status |-> 304, body |-> <<>>]

\* app.get('/api/updates'): res.json(lastUpdate) or res.status(304).send()
getUpdates(update, query) ==
    IF update.timestamp # 0 /\ Gt(Num(update.timestamp), lastUpdateTime(query))
    THEN [path |-> "/api/updates", query |-> query, status |-> 200, body |-> <<update>>]
    ELSE [path |-> "/api/updates", query |-> query, status |-> 304, body |-> <<>>]

\* app.get('/api/symbols'): res.json({current, history})
getSymbols(current, history) ==
    [path |-> "/api/symbols", query |-> <<>>, status |-> 200,
     body |-> <<[current |-> current, history |-> history]>>]

\* the timestamps of the updates published so far, and 0
published == {events[i].at : i \in DOMAIN events} \cup {0}

\* the white space a client puts before the number: a blank, a form feed, a
\* byte order mark
Blanks == <<" ", "\f", "U+FEFF">>

\* the query strings of a number n: its digits, after white space, before a
\* suffix
queriesOf(n) ==
    {<<toString(n)>>, <<Blanks \o toString(n)>>, <<toString(n) \o <<"m", "s">>>>}

\* the query strings a client sends: none, no number, or a published
\* timestamp
Queries == {<<>>, <<<<"a", "b", "c">>>>} \cup UNION {queriesOf(n) : n \in published}

\* what a request leaves alone
scannerFrame == <<variant, clock, idleStart, isRunning, intervalId, priceHistory,
                  volatilityScores, volumes, hasErrorThisMinute, pending, events,
                  result, finals, failedMinutes, preReset, alive, rejected,
                  timers, calls>>

\* some client requests /api/updates
GetUpdates ==
    /\ alive
    /\ variant = "server"
    /\ \E query \in Queries : reply' = getUpdates(lastUpdate, query)
    /\ ops' = <<"GET /api/updates">>
    /\ UNCHANGED <<polled, lastSeen>>
    /\ UNCHANGED listenerFrame
    /\ UNCHANGED scannerFrame

\* the page of server.js polls: fetch('/api/updates?lastUpdate=' +
\* lastUpdateTime), and the server answers
pollForUpdates ==
    /\ alive
    /\ variant = "server"
    /\ polled = <<>>
    /\ reply' = getUpdates(lastUpdate, <<toString(lastSeen)>>)
    /\ polled' = <<reply'>>
    /\ ops' = <<"pollForUpdates", "GET /api/updates">>
    /\ UNCHANGED lastSeen
    /\ UNCHANGED listenerFrame
    /\ UNCHANGED scannerFrame

\* the `then` callbacks of the page's poll: lastUpdateTime = data.timestamp
\* unless the status is 304; the next poll is set up after them
pollReturns ==
    /\ polled # <<>>
    /\ lastSeen' = IF polled[1].status = 200 THEN polled[1].body[1].timestamp
                   ELSE lastSeen
    /\ polled' = <<>>
    /\ ops' = <<"then">>
    /\ reply' = NoReply
    /\ UNCHANGED listenerFrame
    /\ UNCHANGED scannerFrame

\* a client requests /api/symbols
GetSymbols ==
    /\ alive
    /\ variant = "part"
    /\ reply' = getSymbols(currentSymbol, symbolHistory)
    /\ ops' = <<"GET /api/symbols">>
    /\ UNCHANGED <<polled, lastSeen>>
    /\ UNCHANGED listenerFrame
    /\ UNCHANGED scannerFrame

\* the maps after a fetchTickers() that left the fields f and the
\* calculateVolatility() that follows it, both reading the clock as `at`
scored(f, at) ==
    [priceHistory       |-> f.priceHistory,
     volumes            |-> f.volumes,
     hasErrorThisMinute |-> f.hasErrorThisMinute,
     volatilityScores   |-> calculateVolatility(f.priceHistory, at)]

\* the scanner's maps n seconds into a run of callbacks that began after the
\* time t, with the maps empty: the callbacks read the whole seconds and each
\* request got Snapshot1 at once
RECURSIVE sampled(_, _)
sampled(t, n) ==
    IF n = 0 THEN reset
    ELSE scored(fetchTickers(Snapshot1, sampled(t, n - 1).priceHistory,
                             sampled(t, n - 1).volumes,
                             sampled(t, n - 1).hasErrorThisMinute,
                             t + n * IntervalMs),
                t + n * IntervalMs)

\* what findBestPerformer() gives on the maps m
winner(m) == findBestPerformer(m.volatilityScores, m.volumes, m.hasErrorThisMinute)

\* what each file emits for the winner r: in part_000 the lookup gets
\* Snapshot1 at once
emitted(file, r) ==
    IF file = "server" THEN r
    ELSE payloadOf(r, Snapshot1.data.result.list[lookupTicker(Snapshot1, r.symbol)])

\* the minutes whose finalize step has run when the run is a day old
DayMinutes == 0..(DayMs \div 60000 - 1)

\* the listeners have heard one event, for the winner r of minute 0 with the
\* payload data, and read the clock as `at`; the page of server.js has polled
\* since or has not
heard(r, data, at) ==
    /\ events = emit(<<>>, 0, at, data)
    /\ lastUpdate = IF variant = "server" THEN onBestPerformerFound(r, at)
                    ELSE NoUpdate
    /\ lastSeen \in (IF variant = "server" THEN {0, at} ELSE {0})
    /\ currentSymbol =
          IF variant = "server" THEN <<>>
          ELSE consume([currentSymbol |-> <<>>, symbolHistory |-> <<>>],
                       data, at, at).currentSymbol
    /\ symbolHistory =
          IF variant = "server" THEN <<>>
          ELSE consume([currentSymbol |-> <<>>, symbolHistory |-> <<>>],
                       data, at, at).symbolHistory

\* the run a day and two seconds after the load at StartClock: first was the
\* winner of minute 0, whose event the listener stamped with the time the
\* finalize callback read or with the millisecond after it; quiet is what the
\* finalize steps since found; m are the maps now
aged(m, first, quiet) ==
    /\ clock = StartClock + DayMs + 2 * IntervalMs
    /\ idleStart = clock
    /\ isRunning = TRUE
    /\ intervalId = 1
    /\ timers = {1}
    /\ calls = startCalls(variant)
    /\ alive = TRUE
    /\ priceHistory = m.priceHistory
    /\ volatilityScores = m.volatilityScores
    /\ volumes = m.volumes
    /\ hasErrorThisMinute = m.hasErrorThisMinute
    /\ pending = <<>>
    /\ result = quiet
    /\ ops = <<"fetchTickers", "calculateVolatility">>
    /\ finals = {[minute |-> n,
                  symbol |-> IF n = 0 THEN first.symbol ELSE quiet.symbol,
                  hasError |-> IF n = 0 THEN first.hasError ELSE quiet.hasError] :
                    n \in DayMinutes}
    /\ failedMinutes = {}
    /\ preReset = NoPreReset
    /\ rejected = {}
    /\ reply = NoReply
    /\ polled = <<>>
    /\ \E at \in reads(StartClock + 3 * IntervalMs) :
          heard(first, emitted(variant, first), at)

\* the maps of that run two seconds in, and a day and two seconds in
agedOf(maps) ==
    aged(maps[StartClock + DayMs], winner(maps[StartClock]), winner(reset))

\* a file loaded at StartClock has run for a day and two seconds: the
\* callbacks of the timer read the whole seconds; the requests of the first
\* two and of the last two got Snapshot1 at once, the lookup of minute 0 too,
\* and every other request an empty list
ADayOn ==
    /\ variant \in {"server", "part"}
    /\ agedOf([t \in {StartClock, StartClock + DayMs} |-> sampled(t, 2)])

\* the file has just been loaded, 58 s into a minute, or was loaded at
\* StartClock and has run for a day and two seconds
ConsumerInit == InitAt(StartClock + 2 * IntervalMs) \/ ADayOn

ConsumerNext ==
    \/ Start
    \/ TickReset
    \/ TickAccumulate
    \/ TickFinalize
    \/ FetchReturns
    \/ LookupReturns
    \/ LookupThrows
    \/ GetUpdates
    \/ pollForUpdates
    \/ pollReturns
    \/ GetSymbols

SpecConsumer == ConsumerInit /\ [][ConsumerNext]_vars

-----------------------------------------------------------------------------
(* Properties *)

\* the events emitted for the finalize step of minute m
eventsOf(m) == {i \in DOMAIN events : events[i].minute = m}

\* the supplementary lookup of minute m's finalize step is still outstanding
lookupPending(m) ==
    \E i \in DOMAIN pending :
        pending[i].kind = "lookup" /\ minuteOf(pending[i].started) = m

\* the finalize step found a winner and no error
qualifying(f) == f.symbol # Null /\ ~f.hasError

\* the last step ran processMinute's finalize branch / its reset
finalizeRan == Len(ops) >= 2 /\ ops[2] = "findBestPerformer"

resetRan == \E i \in DOMAIN ops : ops[i] = "reset"

\* C1: when a fetchTickers call has failed at any point of a wall-clock
\* minute, the finalize step at second 59 of that minute emits no
\* bestPerformerFound event, whatever winner findBestPerformer returned: no
\* event is emitted for the finalize step of a minute in which a call has
\* failed by then.
C1_NoEventAfterFailure ==
    [][\A i \in DOMAIN events' :
          i > Len(events) => events'[i].minute \notin failedMinutes]_vars

\* C2: once a fetch failure has set hasErrorThisMinute it stays true through
\* every later step of that minute: no step sets it back to false in a
\* wall-clock minute in which a fetchTickers call has failed.
C2_ErrorFlagSticky ==
    [][(hasErrorThisMinute /\ ~hasErrorThisMinute')
          => minuteOf(clock') \notin failedMinutes]_vars

\* C3: at most one processMinute invocation is in progress at any
\* time.
C3_TicksNeverOverlap == Len(pending) <= 1

\* C4: every minute whose finalize step finds a winner with
\* hasErrorThisMinute false has exactly one event (once its lookup, if any, is
\* no longer outstanding), and every other minute has none.
C4_ExactlyOneEvent ==
    /\ \A f \in finals :
          IF qualifying(f)
          THEN lookupPending(f.minute) \/ Cardinality(eventsOf(f.minute)) = 1
          ELSE eventsOf(f.minute) = {}
    /\ \A i \in DOMAIN events : \E f \in finals : f.minute = events[i].minute

\* C5: the symbol findBestPerformer returns at the finalize step has a latest
\* volume of at least 10,000,000; when no scored symbol reaches the floor it
\* returns symbol null and moves 0, the process goes on, and that finalize
\* step emits no event and starts no lookup.
C5_VolumeFloor ==
    [][finalizeRan' =>
          /\ result'.symbol # Null =>
                /\ Has(volumes', result'.symbol)
                /\ Ge(Get(volumes', result'.symbol), Num(10000000))
          /\ (\A i \in DOMAIN volatilityScores' :
                 ~Ge(GetNumber(volumes', volatilityScores'[i].key), Num(10000000)))
             => /\ result'.symbol = Null
                /\ result'.moves = Num(0)
                /\ alive'
                /\ ops' = <<"processMinute", "findBestPerformer">>
                /\ events' = events
                /\ pending' = pending
                /\ UNCHANGED listenerFrame]_vars

\* the symbol with the highest score is below the floor and another is returned
C5_Witness ==
    /\ finalizeRan
    /\ result.symbol # Null
    /\ \E i \in DOMAIN volatilityScores :
          /\ Lt(GetNumber(volumes, volatilityScores[i].key), Num(10000000))
          /\ \A j \in DOMAIN volatilityScores :
                j # i => Gt(volatilityScores[i].value, volatilityScores[j].value)

\* the entries of the score map whose symbol passes the volume floor
passing ==
    {i \in DOMAIN volatilityScores :
        Ge(GetNumber(volumes, volatilityScores[i].key), Num(10000000))}

\* x - y without rounding, for finite x and y: sign * mant * 2^exp, mant any
\* whole number
ExactSub(x, y) ==
    LET e == Min(x.exp, y.exp)
        a == BigShl(x.mant, x.exp - e)
        b == BigShl(y.mant, y.exp - e)
    IN  IF x.sign # y.sign THEN [sign |-> x.sign, mant |-> BigAdd(a, b), exp |-> e]
        ELSE IF BigCmp(a, b) >= 0 THEN [sign |-> x.sign, mant |-> BigSub(a, b), exp |-> e]
        ELSE [sign |-> -x.sign, mant |-> BigSub(b, a), exp |-> e]

\* -1, 0 or 1 as v.sign * v.mant * 2^v.exp is less than, equal to or greater
\* than n / d, for integers n >= 0 and d > 0
ExactCmp(v, n, d) ==
    IF v.sign = -1 /\ v.mant # <<>> THEN -1
    ELSE BigCmp(BigShl(BigMul(v.mant, BigOfInt(d)), Max(v.exp, 0)),
                BigShl(BigOfInt(n), Max(-v.exp, 0)))

\* x is more than 0.0001 greater than y: the difference and the bound are
\* taken exactly when both are finite
exceedsByEpsilon(x, y) ==
    IF isFinite(x) /\ isFinite(y) THEN ExactCmp(ExactSub(x, y), 1, 10000) > 0
    ELSE Gt(Sub(x, y), Epsilon)

\* the scores of entries i and j differ by at most 0.0001
tied(i, j) ==
    /\ ~exceedsByEpsilon(volatilityScores[i].value, volatilityScores[j].value)
    /\ ~exceedsByEpsilon(volatilityScores[j].value, volatilityScores[i].value)

\* C6: when exactly two symbols pass the volume floor and their scores differ
\* by at most 0.0001, findBestPerformer returns the one with the higher latest
\* volume, in either insertion order.
C6_TieBrokenByVolume ==
    ops = <<"findBestPerformer">> =>
        \A i, j \in passing :
            ( /\ passing = {i, j}
              /\ i # j
              /\ tied(i, j)
              /\ Gt(GetNumber(volumes, volatilityScores[i].key),
                    GetNumber(volumes, volatilityScores[j].key)) )
            => result.symbol = volatilityScores[i].key

\* two passing symbols with close, unequal scores: the one inserted later and
\* scored lower has the higher volume and is returned
C6_Witness ==
    /\ ops = <<"findBestPerformer">>
    /\ \E i, j \in passing :
          /\ passing = {i, j}
          /\ i < j
          /\ tied(i, j)
          /\ Gt(volatilityScores[i].value, volatilityScores[j].value)
          /\ Gt(GetNumber(volumes, volatilityScores[j].key),
                GetNumber(volumes, volatilityScores[i].key))
          /\ result.symbol = volatilityScores[j].key

\* the samples of a history entry that are at most 60 s old
inWindow(prices) == {j \in DOMAIN prices : prices[j].timestamp >= clock - 60000}

\* C7: after calculateVolatility the keys of volatilityScores are exactly the
\* symbols with at least two samples of timestamp >= now - 60 s.
C7_ScoredIffTwoInWindow ==
    ops = <<"calculateVolatility">> =>
        Keys(volatilityScores) =
            {priceHistory[i].key :
                i \in {k \in DOMAIN priceHistory :
                          Cardinality(inWindow(priceHistory[k].value)) >= 2}}

\* a symbol that an earlier invocation scored (it was returned as the winner)
\* still has two samples, but not in the window, and has no entry any more
C7_Witness ==
    /\ ops = <<"calculateVolatility">>
    /\ result.symbol # Null
    /\ Has(priceHistory, result.symbol)
    /\ Len(Get(priceHistory, result.symbol)) >= 2
    /\ ~Has(volatilityScores, result.symbol)

\* the in-window prices of a history entry, in insertion order
windowPrices(prices) ==
    LET idx == inWindow(prices)
        RECURSIVE from(_)
        from(j) == IF j > Len(prices) THEN <<>>
                   ELSE IF j \in idx THEN <<prices[j].price>> \o from(j + 1)
                   ELSE from(j + 1)
    IN  from(1)

\* the TLA+ integer of a number that is an integer below 2^31
intOf(x) ==
    LET a == BigShl(x.mant, x.exp)
    IN  x.sign * (Limb(a, 1) + Base * Limb(a, 2) + Base * Base * Limb(a, 3))

\* the sum of |p[i] - p[i-1]| and the sum of p[i], for integer prices
RECURSIVE movementOf(_)
movementOf(ps) ==
    IF Len(ps) < 2 THEN 0
    ELSE Abs(intOf(ps[2]) - intOf(ps[1])) + movementOf(Tail(ps))

RECURSIVE sumOf(_)
sumOf(ps) == IF ps = <<>> THEN 0 ELSE intOf(ps[1]) + sumOf(Tail(ps))

\* x is within one part in 2^50 of n / d, for a finite x >= 0 and integers
\* n >= 0 and d > 0
within50(x, n, d) ==
    LET a    == BigShl(BigMul(x.mant, BigOfInt(d)), Max(x.exp, 0))
        b    == BigShl(BigOfInt(n), Max(-x.exp, 0))
        diff == IF BigCmp(a, b) >= 0 THEN BigSub(a, b) ELSE BigSub(b, a)
    IN  BigCmp(BigShl(diff, 50), b) <= 0

\* the whole number nearest to n / d, a half going up, for integers n >= 0 and
\* d > 0
nearest(n, d) == (2 * n + d) \div (2 * d)

\* C8: for in-window prices p1..pn (n >= 2) the score is
\* (sum |p[i] - p[i-1]| / mean(p)) x 100, and the moves of a winner is
\* round(score x 100): the whole number nearest to
\* 10000 x n x sum |p[i] - p[i-1]| / sum p[i].
C8_ExactMoves ==
    ( /\ ops = <<"findBestPerformer">>
      /\ result.symbol # Null
      /\ volatilityScores = calculateVolatility(priceHistory, clock) ) =>
        LET ps == windowPrices(Get(priceHistory, result.symbol))
        IN  (sumOf(ps) > 0 /\ \A j \in DOMAIN ps : isInteger(ps[j]))
            => result.moves = Num(nearest(10000 * Len(ps) * movementOf(ps), sumOf(ps)))

\* C8 (amended): for in-window prices p1..pn (n >= 2) the score is
\* (sum |p[i] - p[i-1]| / mean(p)) x 100 evaluated in binary64 arithmetic, the
\* quotient first, stale samples left out, which is within one part in 2^50
\* of the exact value; the moves of a winner is the whole number nearest to
\* the binary64 product score x 100, a half going up; prices 100, 101, 99
\* score 3 and give moves 300.
C8_ScoreAndMoves ==
    /\ ops = <<"calculateVolatility">> =>
          \A i \in DOMAIN priceHistory :
              LET ps    == windowPrices(priceHistory[i].value)
                  score == Get(volatilityScores, priceHistory[i].key)
              IN  (Len(ps) >= 2 /\ sumOf(ps) > 0 /\ \A j \in DOMAIN ps : isInteger(ps[j]))
                  => /\ Has(volatilityScores, priceHistory[i].key)
                     /\ score = Mul(Div(Num(movementOf(ps)),
                                        Div(Num(sumOf(ps)), Num(Len(ps)))),
                                    Num(100))
                     /\ isFinite(score)
                     /\ score.sign = 1
                     /\ within50(score, 100 * movementOf(ps) * Len(ps), sumOf(ps))
                     /\ ps = <<Num(100), Num(101), Num(99)>> => score = Num(3)
    /\ (ops = <<"findBestPerformer">> /\ result.symbol # Null
           /\ isFinite(Get(volatilityScores, result.symbol))) =>
          LET sc      == Get(volatilityScores, result.symbol)
              product == Mul(sc, Num(100))
          IN  /\ isInteger(result.moves)
              /\ ExactCmp(ExactSub(result.moves, product), 1, 2) <= 0
              /\ ExactCmp(ExactSub(product, result.moves), 1, 2) < 0
              /\ sc = Num(3) => result.moves = Num(300)

\* the winner's in-window prices are 100, 101, 99 and its moves are 300
C8_Witness ==
    /\ ops = <<"findBestPerformer">>
    /\ result.symbol # Null
    /\ Has(priceHistory, result.symbol)
    /\ windowPrices(Get(priceHistory, result.symbol)) = <<Num(100), Num(101), Num(99)>>
    /\ result.moves = Num(300)

\* C9: every price sample held before the reset at second 0 is
\* still held after it.
C9_ResetKeepsHistory ==
    [][resetRan' =>
          \A i \in DOMAIN priceHistory :
              /\ Has(priceHistory', priceHistory[i].key)
              /\ \A j \in DOMAIN priceHistory[i].value :
                    priceHistory[i].value[j]
                        \in Range(Get(priceHistory', priceHistory[i].key))]_vars

\* C10: right after the reset at second 0 the score map is empty and
\* hasErrorThisMinute is false, whatever the scores, the flag and the winner
\* of the previous minute were.
C10_ResetIndependent ==
    resetRan => volatilityScores = <<>> /\ hasErrorThisMinute = FALSE

\* the reset found scores and a true flag, the previous minute had a winner,
\* and they are gone
C10_Witness ==
    /\ resetRan
    /\ preReset.scored
    /\ preReset.hasError
    /\ result.symbol # Null
    /\ volatilityScores = <<>>
    /\ ~hasErrorThisMinute

\* the last step was a firing of the timer
tickRan == Len(ops) >= 1 /\ ops[1] = "processMinute"

\* C11: fetchTickers and calculateVolatility are invoked only on ticks at
\* seconds 1 to 58; the tick at second 0 only resets and the tick at second 59
\* only finalizes.
C11_AccumulateOnly1To58 ==
    /\ tickRan =>
          /\ getSeconds(idleStart) = 0 => ops = <<"processMinute", "reset">>
          /\ "fetchTickers" \in Range(ops) => getSeconds(idleStart) \in 1..58
          /\ getSeconds(idleStart) = 59 =>
                /\ ops[2] = "findBestPerformer"
                /\ "fetchTickers" \notin Range(ops)
                /\ "reset" \notin Range(ops)
    /\ \A i \in DOMAIN pending :
          pending[i].kind = "fetch" => getSeconds(pending[i].started) \in 1..58

\* C12: a fetchTickers call that fails sets hasErrorThisMinute and leaves
\* priceHistory and volumes exactly as they were before the call.
C12_FailedFetchChangesNothing ==
    [][ops' = <<"fetchTickers", "catch", "calculateVolatility">>
          => /\ hasErrorThisMinute'
             /\ priceHistory' = priceHistory
             /\ volumes' = volumes]_vars

\* C13: no network or parse failure of a tick, the supplementary lookup
\* included, escapes processMinute: no promise it returned has rejected, and
\* the process goes on running its ticks.
C13_NoFailureEscapes == rejected = {} /\ alive

\* C14: the running scanner keeps its samples by age alone, with a limit of
\* 120 s: after every step no sample older than 120 s is held, and every
\* sample held before the step that is less than 120 s old is still held.
C14_RetainedByAge ==
    [][/\ \A i \in DOMAIN priceHistory' :
             \A j \in DOMAIN priceHistory'[i].value :
                 priceHistory'[i].value[j].timestamp >= clock' - 120000
       /\ \A i \in DOMAIN priceHistory :
             \A j \in DOMAIN priceHistory[i].value :
                 priceHistory[i].value[j].timestamp > clock' - 120000
                 => /\ Has(priceHistory', priceHistory[i].key)
                    /\ priceHistory[i].value[j]
                          \in Range(Get(priceHistory', priceHistory[i].key))]_vars

\* the answer of GET /api/updates to a client whose lastUpdate parameter is
\* the number n, with `update` the server's lastUpdate
answerTo(update, n) ==
    IF update.timestamp # 0 /\ update.timestamp > n
    THEN [status |-> 200, body |-> <<update>>]
    ELSE [status |-> 304, body |-> <<>>]

\* C15: GET /api/updates answers with lastUpdate exactly when its timestamp is
\* set and greater than the client's lastUpdate parameter, and with 304
\* otherwise; the timestamps of successive updates strictly increase; the
\* page, which sends back the timestamp it got last, is never sent an update
\* it has had, and is sent the latest update whenever one was published after
\* the one it got last.
C15_UpdatesPolling ==
    [][/\ "GET /api/updates" \in Range(ops') =>
             /\ \A n \in published' :
                   reply'.query \in queriesOf(n)
                   => /\ reply'.status = answerTo(lastUpdate', n).status
                      /\ reply'.body = answerTo(lastUpdate', n).body
             /\ reply'.query \in {<<>>, <<<<"a", "b", "c">>>>}
                   => /\ reply'.status = answerTo(lastUpdate', 0).status
                      /\ reply'.body = answerTo(lastUpdate', 0).body
       /\ ops' = <<"pollForUpdates", "GET /api/updates">> =>
             /\ reply'.query = <<toString(lastSeen)>>
             /\ IF \E i \in DOMAIN events : events[i].at > lastSeen
                THEN /\ reply'.status = 200
                     /\ reply'.body[1].timestamp = events[Len(events)].at
                     /\ reply'.body[1].timestamp > lastSeen
                ELSE reply'.status = 304
       /\ ops' = <<"then">> =>
             /\ lastSeen' >= lastSeen
             /\ polled[1].status = 200 => lastSeen' > lastSeen
             /\ lastSeen' \in published
       /\ variant' = "server" =>
             /\ \A i, j \in DOMAIN events' : i < j => events'[i].at < events'[j].at
             /\ events' # <<>> => lastUpdate'.timestamp = events'[Len(events')].at]_vars

\* the page had the first update when the second was published; it polled
\* with the first one's timestamp and got the second
C15_Witness ==
    /\ ops = <<"pollForUpdates", "GET /api/updates">>
    /\ Len(events) >= 2
    /\ lastSeen = events[1].at
    /\ reply.query = <<toString(events[1].at)>>
    /\ reply.status = 200
    /\ reply.body[1].timestamp = events[2].at

\* C16: whenever GET /api/symbols is answered, every entry of the history it
\* returns is at most 24 hours old at that moment.
C16_HistoryWithin24h ==
    ops = <<"GET /api/symbols">> =>
        \A i \in DOMAIN reply.body[1].history :
            clock - reply.body[1].history[i].timestamp <= 24 * 60 * 60 * 1000

\* C17: under any sequence of start() and stop() calls isRunning is true
\* exactly when intervalId is set, and at most one interval timer exists: it is
\* the one intervalId names.  start() while running creates no timer, stop()
\* while idle changes nothing, running ends only through stop(), and start()
\* always leaves the scanner running, also after a stop().
C17_Lifecycle ==
    [][/\ isRunning' <=> intervalId' # 0
       /\ Cardinality(timers') <= 1
       /\ timers' = IF isRunning' THEN {intervalId'} ELSE {}
       /\ (ops' = <<"start">> /\ isRunning) => UNCHANGED <<isRunning, intervalId, timers>>
       /\ (ops' = <<"stop">> /\ ~isRunning) => UNCHANGED <<isRunning, intervalId, timers>>
       /\ (isRunning /\ ~isRunning') => ops' = <<"stop">>
       /\ ops' = <<"start">> => isRunning'
       /\ ops' = <<"stop">> => ~isRunning']_vars

\* the scanner was started, stopped and started again: it runs on the timer of
\* the last call
C17_Witness ==
    /\ ops = <<"start">>
    /\ calls >= 3
    /\ isRunning
    /\ intervalId = calls
    /\ timers = {calls}

\* C18: every bestPerformerFound event carries the four payload fields: a
\* symbol that is not null, an integer moves, the winner's turnover and the
\* winner's fundingRate.
C18_FourPayloadFields ==
    \A i \in DOMAIN events :
        LET data == events[i].payload
        IN  /\ {"symbol", "moves", "turnover", "fundingRate"} \subseteq DOMAIN data
            /\ data.symbol # Null
            /\ isInteger(data.moves)
            /\ data.turnover # <<"N", "a", "N">>
            /\ data.fundingRate # <<"N", "a", "N">>

\* the score map with its entries inserted in every order
reorderings == Orders(Range(volatilityScores))

\* C19: the winner depends on the set of (symbol, score, volume) triples alone:
\* the same entries inserted into the score map in any other order give the
\* same winner.
C19_WinnerIgnoresInsertionOrder ==
    ops = <<"findBestPerformer">> =>
        \A scores \in reorderings :
            findBestPerformer(scores, volumes, hasErrorThisMinute).symbol = result.symbol

\* C20: the winner is never out-scored by more than 0.0001 by another symbol
\* that passes the volume floor.
C20_WinnerWithinEpsilonOfBest ==
    (ops = <<"findBestPerformer">> /\ result.symbol # Null) =>
        \A i \in passing :
            ~exceedsByEpsilon(volatilityScores[i].value,
                              Get(volatilityScores, result.symbol))

\* the pending calls whose completion the step from pending to pending' may be
completed == {i \in DOMAIN pending : pending' = remove(pending, i)}

\* C21: a fetch failure is charged to the minute in which its tick started: a
\* fetchTickers call started in an earlier minute that fails after the reset
\* of the current minute does not set hasErrorThisMinute for the current
\* minute.
C21_FailureChargedToItsMinute ==
    [][( /\ ops' = <<"fetchTickers", "catch", "calculateVolatility">>
         /\ ~hasErrorThisMinute
         /\ \A i \in completed :
               /\ pending[i].kind = "fetch"
               /\ minuteOf(pending[i].started) < minuteOf(clock) )
          => ~hasErrorThisMinute']_vars

\* C22: in every reachable state, with overlapping ticks and responses that
\* arrive out of request order included, the timestamps of each symbol's
\* samples are non-decreasing in insertion order.
C22_TimestampsNonDecreasing ==
    \A i \in DOMAIN priceHistory :
        \A j, k \in DOMAIN priceHistory[i].value :
            j < k => priceHistory[i].value[j].timestamp
                        <= priceHistory[i].value[k].timestamp

\* a response has been ingested while a request made before it is still
\* outstanding
C22_Witness ==
    /\ ops = <<"fetchTickers", "calculateVolatility">>
    /\ \E i \in DOMAIN priceHistory :
       \E j \in DOMAIN priceHistory[i].value :
       \E p \in DOMAIN pending :
          /\ pending[p].kind = "fetch"
          /\ pending[p].started < priceHistory[i].value[j].timestamp

\* C23: in every reachable state priceHistory and volumes have the same keys
\* and every key of volatilityScores is one of them, so findBestPerformer
\* finds a volume for every scored symbol.
C23_KeySetsAgree ==
    /\ Keys(priceHistory) = Keys(volumes)
    /\ Keys(volatilityScores) \subseteq Keys(priceHistory)
    /\ \A i \in DOMAIN volatilityScores : Has(volumes, volatilityScores[i].key)

\* the finalize step picked a winner among the scored symbols while another
\* symbol has a history and a volume but no score
C23_Witness ==
    /\ finalizeRan
    /\ result.symbol # Null
    /\ Keys(volatilityScores) # {}
    /\ Keys(volatilityScores) # Keys(priceHistory)
    /\ Keys(priceHistory) = Keys(volumes)

\* C24: in the consumer of part_000, after any sequence of events and
\* queries, currentSymbol is null exactly when no event has been consumed;
\* otherwise it is the first element of symbolHistory and holds the last
\* event; symbolHistory is ordered newest first; GET /api/symbols returns both
\* and changes neither.
C24_ConsumerState ==
    [][variant' = "part" =>
          /\ currentSymbol' = <<>> <=> events' = <<>>
          /\ currentSymbol' # <<>> =>
                /\ symbolHistory' # <<>>
                /\ currentSymbol'[1] = symbolHistory'[1]
                /\ currentSymbol'[1].timestamp = events'[Len(events')].at
                /\ currentSymbol'[1].symbol = events'[Len(events')].payload.symbol
          /\ \A j, k \in DOMAIN symbolHistory' :
                j < k => symbolHistory'[j].timestamp >= symbolHistory'[k].timestamp
          /\ ops' = <<"GET /api/symbols">> =>
                /\ UNCHANGED <<currentSymbol, symbolHistory>>
                /\ reply'.body = <<[current |-> currentSymbol,
                                    history |-> symbolHistory]>>]_vars

\* the event of a day ago, less a millisecond, and a new one were consumed,
\* and a query was answered
C24_Witness ==
    /\ ops = <<"GET /api/symbols">>
    /\ Len(events) = 2
    /\ Len(symbolHistory) = 2
    /\ symbolHistory[1].timestamp = symbolHistory[2].timestamp + DayMs - 1
    /\ currentSymbol = <<symbolHistory[1]>>
    /\ reply.body[1].history = symbolHistory

====
